---- MODULE Spec2Model ----
(***************************************************************************)
(* Model of the streaming orchestration engine of grok-cli (src/src/api.js, *)
(* class GrokClient): the fallback chat call, the tool executor with its    *)
(* overflow cache, the streaming tool-call loop and the plain streaming     *)
(* call.  One behaviour of the model is one call of streamWithTools or of   *)
(* chatStream on one client.  An action runs the code from one suspension   *)
(* point (await / yield) to the next, which is the atomicity the JavaScript *)
(* event loop gives the code.                                               *)
(***************************************************************************)
EXTENDS Integers, Sequences, FiniteSets, TLC

(***************************************************************************)
(* Program constants.                                                       *)
(***************************************************************************)
maxIterations == 25

CacheThreshold == 500

modelNames == <<"grok-4", "grok-beta", "grok-3">>

(***************************************************************************)
(* Bounds of the model.                                                     *)
(***************************************************************************)
\* largest number of tool calls the remote model requests in one turn
MaxCalls == 2

\* largest number of characters of a final answer
MaxChars == 2

(***************************************************************************)
(* Text.  A string is a sequence of tokens: literals of the source, paths,  *)
(* numbers rendered in decimal, and file contents.  Length and line count   *)
(* are computed token by token, as String.length and split('\n') do.        *)
(***************************************************************************)
Lit(s) == [t |-> "lit", s |-> s]

Num(n) == [t |-> "num", n |-> n]

\* a path as the model wrote it in the arguments
Raw(p) == [t |-> "raw", p |-> p]

\* path.resolve(p): the absolute path
Abs(p) == [t |-> "abs", p |-> p]

\* the content of a file
Blob(b) == [t |-> "blob", b |-> b]

\* error.message of a failed operation
Err(e, p) == [t |-> "err", e |-> e, p |-> p]

\* the visible entries of a directory listing
Listing(names) == [t |-> "listing", names |-> names]

Paths == {"small.txt", "edge500.txt", "edge501.txt", "big.txt", "missing.txt", "out.txt"}

\* the file contents of the environment
Blobs == {"small", "edge500", "edge501", "big", "hi"}

\* String.length of a file content (UTF-16 code units)
BlobLen ==
  [b \in Blobs |->
     CASE b = "small" -> 40
       [] b = "edge500" -> 470
       [] b = "edge501" -> 471
       [] b = "big" -> 600
       [] b = "hi" -> 2]

\* size in bytes of a file content; "big" holds non-ASCII characters
BlobBytes ==
  [b \in Blobs |->
     CASE b = "small" -> 40
       [] b = "edge500" -> 470
       [] b = "edge501" -> 471
       [] b = "big" -> 640
       [] b = "hi" -> 2]

\* number of "\n" in a file content
BlobNewlines ==
  [b \in Blobs |->
     CASE b = "small" -> 2
       [] b = "edge500" -> 9
       [] b = "edge501" -> 0
       [] b = "big" -> 19
       [] b = "hi" -> 0]

\* length of a path as written
RawLen ==
  [p \in Paths |->
     CASE p = "small.txt" -> 9
       [] p = "edge500.txt" -> 11
       [] p = "edge501.txt" -> 11
       [] p = "big.txt" -> 7
       [] p = "missing.txt" -> 11
       [] p = "out.txt" -> 7]

\* path.resolve under the working directory "/app": "/app/" + p
AbsLen == [p \in Paths |-> 5 + RawLen[p]]

\* the literals of readFileImpl and of the catch of executeToolCall
LitLen(s) ==
  CASE s = "Contents of " -> 12
    [] s = ":\n" -> 2
    [] s = "Error reading file: " -> 20
    [] s = "Error: " -> 7

LitNewlines(s) == IF s = ":\n" THEN 1 ELSE 0

\* "ENOENT: no such file or directory, open '<abs>'"
ErrLen(tok) == 42 + AbsLen[tok.p]

TokLen(tok) ==
  CASE tok.t = "lit" -> LitLen(tok.s)
    [] tok.t = "raw" -> RawLen[tok.p]
    [] tok.t = "abs" -> AbsLen[tok.p]
    [] tok.t = "blob" -> BlobLen[tok.b]
    [] tok.t = "err" -> ErrLen(tok)

TokNewlines(tok) ==
  CASE tok.t = "lit" -> LitNewlines(tok.s)
    [] tok.t = "blob" -> BlobNewlines[tok.b]
    [] OTHER -> 0

RECURSIVE TextLen(_)
TextLen(text) ==
  IF text = <<>> THEN 0 ELSE TokLen(Head(text)) + TextLen(Tail(text))

RECURSIVE TextNewlines(_)
TextNewlines(text) ==
  IF text = <<>> THEN 0 ELSE TokNewlines(Head(text)) + TextNewlines(Tail(text))

\* result.split('\n').length
SplitLines(text) == TextNewlines(text) + 1

(***************************************************************************)
(* Tool invocations.  The arguments are the JSON text the model sent.       *)
(***************************************************************************)
\* JSON.parse(toolCall.function.arguments)
JSONParse(s) ==
  CASE s = "{\"path\":\"small.txt\"}" -> [ok |-> TRUE, path |-> "small.txt"]
    [] s = "{\"path\":\"edge500.txt\"}" -> [ok |-> TRUE, path |-> "edge500.txt"]
    [] s = "{\"path\":\"edge501.txt\"}" -> [ok |-> TRUE, path |-> "edge501.txt"]
    [] s = "{\"path\":\"big.txt\"}" -> [ok |-> TRUE, path |-> "big.txt"]
    [] s = "{\"path\":\"missing.txt\"}" -> [ok |-> TRUE, path |-> "missing.txt"]
    [] s = "{\"path\":\"out.txt\",\"content\":\"hi\"}" ->
         [ok |-> TRUE, path |-> "out.txt", content |-> "hi"]
    [] s = "{\"command\":\"exit 1\"}" -> [ok |-> TRUE, command |-> "exit 1"]
    [] s = "{\"command\":\"true\"}" -> [ok |-> TRUE, command |-> "true"]
    [] s = "{\"command\":\"cat big.txt\"}" -> [ok |-> TRUE, command |-> "cat big.txt"]
    [] s = "{\"command\":\"sleep 60\",\"timeout\":1}" ->
         [ok |-> TRUE, command |-> "sleep 60", timeout |-> 1]
    [] s = "{\"command\":\"true\",\"workingDir\":\"/nonexistent\"}" ->
         [ok |-> TRUE, command |-> "true", workingDir |-> "/nonexistent"]
    [] s = "{}" -> [ok |-> TRUE]
    [] s = "{\"path\":" -> [ok |-> FALSE]

\* the invocations the remote model draws its requests from
Invocations ==
  << [name |-> "readFile", arguments |-> "{\"path\":\"big.txt\"}"],
     [name |-> "readFile", arguments |-> "{\"path\":\"small.txt\"}"],
     [name |-> "readFile", arguments |-> "{\"path\":"],
     [name |-> "executeShell", arguments |-> "{\"command\":\"exit 1\"}"],
     [name |-> "readFile", arguments |-> "{\"path\":\"edge501.txt\"}"],
     [name |-> "deleteFile", arguments |-> "{}"],
     [name |-> "readFile", arguments |-> "{\"path\":\"missing.txt\"}"],
     [name |-> "writeFile", arguments |-> "{\"path\":\"out.txt\",\"content\":\"hi\"}"],
     [name |-> "readFile", arguments |-> "{\"path\":\"edge500.txt\"}"],
     [name |-> "listFiles", arguments |-> "{}"],
     [name |-> "executeShell", arguments |-> "{\"command\":\"true\"}"],
     [name |-> "executeShell", arguments |-> "{\"command\":\"cat big.txt\"}"],
     [name |-> "executeShell", arguments |-> "{\"command\":\"sleep 60\",\"timeout\":1}"],
     [name |-> "executeShell",
      arguments |-> "{\"command\":\"true\",\"workingDir\":\"/nonexistent\"}"] >>

(***************************************************************************)
(* State.                                                                   *)
(***************************************************************************)
VARIABLES
  op,               \* the call this behaviour makes: "tools" (streamWithTools) or "plain" (chatStream)
  scriptStart,      \* the remote model's requests: first invocation of a tool turn ...
  scriptLen,        \* ... and the number of tool calls of a tool turn
  tmpWritable,      \* environment: whether a file can be written into the temp dir
  freshIds,         \* environment: whether the remote service gives every tool call a new id
  files,            \* environment: the file system, path -> content ("absent" when missing)
  tempDir,          \* this.tempDir ("null" when unset)
  toolResultsCache, \* this.toolResultsCache: tool-call id -> [fullPath, fullContent]
  messages,         \* the caller's message list
  aborted,          \* abortSignal.aborted
  pc,               \* the suspension point the call is at
  currentMessages,  \* streamWithTools: working history
  iterationCount,   \* streamWithTools: completed tool iterations
  content,          \* content of the latest chat result
  toolCalls,        \* toolCalls of the latest chat result
  toolIdx,          \* position of the for loop over toolCalls
  toolResults,      \* results for the UI
  aiToolResults,    \* results for the model
  result,           \* the result of the tool call just executed
  emitIdx,          \* position of the for loop over the characters of content
  output,           \* everything the generator has yielded so far
  error,            \* the error the call has thrown ("none" when it has not)
  useTools,         \* chat: the useTools argument of the call in progress
  modelIdx,         \* chat / chatStream: position of the for loop over modelNames
  chatLog,          \* the fetch attempts of the latest chat call, with their outcomes
  toolChats,        \* number of chat calls made with useTools = true
  plainChats,       \* number of chat calls made with useTools = false
  body,             \* chatStream: the response body being read, as its sequence of chunks
  chunks,           \* chatStream: the chunks of the response body not read yet
  lines,            \* chatStream: the lines of the chunk being decoded
  lineIdx,          \* chatStream: position of the for loop over lines
  apiKey,           \* process.env.XAI_API_KEY ("unset" when missing)
  client,           \* the GrokClient: "none" before construction, "ready", "threw"
  appState,         \* the Ink App: "absent", "boot", "running", "unmounting", "unmounted", "exited", "crashed"
  isStreaming,      \* App state isStreaming
  abortController,  \* App state abortController: 0 for null, else the submit that created it
  lastEscapeTime,   \* App state lastEscapeTime
  now,              \* Date.now()
  fileSearchActive, \* App state fileSearchActive
  commandSearchActive, \* App state commandSearchActive
  input,            \* App state input: the text in the input box
  searchTimeout,    \* whether the debounce timer of the search effect is pending
  userInput,        \* the input the latest handleSubmit call took ("" when it has settled)
  appMessages,      \* App state messages: the conversation on screen
  submitPc,         \* the latest handleSubmit call: "idle", "preprocess", "stream"
  earlier,          \* an earlier handleSubmit call that has not settled (NoEarlier when there is none)
  submits,          \* number of handleSubmit calls that passed the guard and started a stream
  leakedIntervals,  \* responseContent of the update intervals of settled submits never cleared
  cleanups,         \* the cleanup calls so far: the temp dir each found, and how far it is
  rmFails,          \* environment: whether removing the temp dir fails
  tempFile,         \* executeToolCall: the directory and the content of the overflow file being written
  logs,             \* debugLogger.logs: the entries of the buffer, oldest first
  logged,           \* number of entries logged so far; the n-th entry logged is n
  returned,         \* the array the latest getLogs call returned
  logTrace          \* the calls made on the debug logger

vars ==
  << op, scriptStart, scriptLen, tmpWritable, freshIds, files, tempDir, toolResultsCache,
     messages, aborted, pc, currentMessages, iterationCount, content, toolCalls,
     toolIdx, toolResults, aiToolResults, result, emitIdx, output, error,
     useTools, modelIdx, chatLog, toolChats, plainChats, body, chunks, lines, lineIdx,
     apiKey, client, appState, isStreaming, abortController, lastEscapeTime, now,
     fileSearchActive, commandSearchActive, input, searchTimeout, userInput, appMessages,
     submitPc, earlier, submits, leakedIntervals, cleanups, rmFails, tempFile,
     logs, logged, returned, logTrace >>

\* the state of the process around the client: environment, Ink App, cleanup
appVars ==
  << apiKey, client, appState, isStreaming, abortController, lastEscapeTime, now,
     fileSearchActive, commandSearchActive, input, searchTimeout, userInput, appMessages,
     submitPc, earlier, submits, leakedIntervals, cleanups, rmFails, tempFile,
     logs, logged, returned, logTrace >>

(***************************************************************************)
(* Tool executor.                                                           *)
(***************************************************************************)
\* fs.mkdtemp(path.join(os.tmpdir(), 'grok-cli-')): a name no directory made
\* before has; every directory but the first is made behind a cleanup that
\* released the one before it
MkdTemp ==
  LET released == Cardinality({i \in DOMAIN cleanups : cleanups[i].state = "done"}) IN
  CASE released = 0 -> "grok-cli-1"
    [] released = 1 -> "grok-cli-2"
    [] released = 2 -> "grok-cli-3"
    [] OTHER -> "grok-cli-4"

\* initTempDir: fs.mkdtemp on the first use, the same directory afterwards
InitTempDir(dir) == IF dir = "null" THEN MkdTemp ELSE dir

\* no overflow file is being written
NoTempFile == [dir |-> "null", content |-> << >>]

\* listFilesImpl with the default arguments: the non-hidden entries of "."
ListFilesImpl(fs) ==
  LET names == {p \in Paths : fs[p] # "absent"} IN
  IF names = {}
  THEN << Lit("Directory "), Abs("."), Lit(" appears to be empty (showing non-hidden files only)") >>
  ELSE << Lit("Contents of "), Abs("."), Lit(":\n\n"), Listing(names) >>

\* writeFileImpl: the confirmation; the write itself is in ExecuteToolCall
WriteFileImpl(args) ==
  << Lit("Successfully wrote "), Num(BlobLen[args.content]), Lit(" bytes to "), Abs(args.path) >>

\* readFileImpl: the content behind a header line, or the error text
ReadFileImpl(args, fs) ==
  IF fs[args.path] = "absent"
  THEN << Lit("Error reading file: "), Err("ENOENT", args.path) >>
  ELSE << Lit("Contents of "), Abs(args.path), Lit(":\n"), Blob(fs[args.path]) >>

\* a JavaScript null
Null == [t |-> "null"]

\* the seconds a command runs for when nothing stops it
Duration(command) == IF command = "sleep 60" THEN 60 ELSE 0

\* promisify(exec)(command, {cwd, timeout}): exec resolves with the output
\* for exit code 0; it rejects with an error that carries the output and
\* the exit code for another exit code, the output so far and no code
\* (null) when the timeout killed the child, and the code name of the
\* system error and no output when the shell could not be spawned
Exec(command, cwd, timeout, fs) ==
  LET none == [ok |-> FALSE, stdout |-> << >>, stderr |-> << >>] IN
  IF cwd = "/nonexistent"
  THEN none @@ [code |-> Lit("ENOENT"), message |-> "spawn /bin/sh ENOENT"]
  ELSE IF Duration(command) * 1000 > timeout
  THEN none @@ [code |-> Null, message |-> "Command failed"]
  ELSE
    CASE command = "true" ->
           [ok |-> TRUE, stdout |-> << >>, stderr |-> << >>, code |-> Num(0),
            message |-> ""]
      [] command = "cat big.txt" /\ fs["big.txt"] # "absent" ->
           [ok |-> TRUE, stdout |-> << Blob(fs["big.txt"]) >>, stderr |-> << >>,
            code |-> Num(0), message |-> ""]
      [] OTHER -> none @@ [code |-> Num(1), message |-> "Command failed"]

\* CodeOr1 without the fallback
CodeAsIs(code) == code

\* error.code || 1
CodeOr1(code) == IF code = Null \/ code = Num(0) THEN Num(1) ELSE code

\* the exec call of executeShellImpl, with the defaults of its parameters:
\* workingDir = process.cwd(), timeout = 30 (268-271)
ShellRun(args, fs) ==
  LET cwd == IF "workingDir" \in DOMAIN args THEN args.workingDir ELSE "."
      timeout == IF "timeout" \in DOMAIN args THEN args.timeout ELSE 30
  IN Exec(args.command, cwd, timeout * 1000, fs)

\* executeShellImpl: the report of the run, or of its failure (268-278)
ExecuteShellImpl(args, fs) ==
  LET command == args.command
      workingDir == IF "workingDir" \in DOMAIN args THEN Raw(args.workingDir) ELSE Abs(".")
      r == ShellRun(args, fs)
  IN
  IF r.ok
  THEN << Lit("Executed \""), Lit(command), Lit("\" in "), workingDir, Lit(":\nStdout: ") >>
         \o r.stdout \o << Lit("\nStderr: ") >> \o r.stderr \o << Lit("\nExit code: 0") >>
  ELSE << Lit("Error executing \""), Lit(command), Lit("\" in "), workingDir,
          Lit(":\nStdout: ") >>
         \o r.stdout \o << Lit("\nStderr: ") >> \o r.stderr
         \o << Lit("\nExit code: "), CodeOr1(r.code), Lit("\nError: "), Err(r.message, ".") >>

\* the summary shown in place of a large readFile result
Summary(args, res) ==
  << Lit("Read file: "), Raw(args.path), Lit(" ("), Num(TextLen(res)), Lit(" bytes, "),
     Num(SplitLines(res)), Lit(" lines)\n[Full content cached for AI analysis]") >>

\* no tool result yet
NoResult == [role |-> "none"]

\* the return value of the try block of executeToolCall
ToolResult(tc, text, isCached) ==
  [tool_call_id |-> tc.id, role |-> "tool", name |-> tc.function.name,
   content |-> text, cached |-> isCached]

\* the return value of the catch block of executeToolCall: no cached flag
ToolError(tc, e) ==
  [tool_call_id |-> tc.id, role |-> "tool", name |-> tc.function.name,
   content |-> << Lit("Error: "), Err(e, ".") >>]

\* IsLarge with the threshold included
IsLargeInclusive(res) == TextLen(res) >= CacheThreshold

\* result.length > 500
IsLarge(res) == TextLen(res) > CacheThreshold

\* the try block of executeToolCall (136-191) on a client whose state is
\* (cache, dir, fs): the value it returns or the error it throws, and the
\* client and file-system state it leaves
ToolTry(tc, cache, dir, fs, writable) ==
  LET functionName == tc.function.name
      args == JSONParse(tc.function.arguments)
      same == [e |-> "none", cache |-> cache, tempDir |-> dir, files |-> fs]
  IN
  IF ~args.ok
  THEN [threw |-> TRUE, ret |-> NoResult] @@ [same EXCEPT !.e = "SyntaxError"]
  ELSE
    CASE functionName = "listFiles" ->
           [threw |-> FALSE, ret |-> ToolResult(tc, ListFilesImpl(fs), FALSE)] @@ same
      [] functionName = "writeFile" ->
           [threw |-> FALSE, ret |-> ToolResult(tc, WriteFileImpl(args), FALSE)]
             @@ [same EXCEPT !.files = [fs EXCEPT ![args.path] = args.content]]
      [] functionName = "readFile" ->
           LET res == ReadFileImpl(args, fs) IN
           IF IsLarge(res)
           THEN
             IF writable
             THEN [threw |-> FALSE, ret |-> ToolResult(tc, Summary(args, res), TRUE)]
                    @@ [same EXCEPT
                          !.tempDir = InitTempDir(dir),
                          !.cache = [i \in DOMAIN cache \cup {tc.id} |->
                                       IF i = tc.id
                                       THEN [fullPath |-> << InitTempDir(dir), tc.id >>,
                                             fullContent |-> res]
                                       ELSE cache[i]]]
             ELSE [threw |-> TRUE, ret |-> NoResult]
                    @@ [same EXCEPT !.e = "ENOSPC", !.tempDir = InitTempDir(dir)]
           ELSE [threw |-> FALSE, ret |-> ToolResult(tc, res, FALSE)] @@ same
      [] functionName = "executeShell" ->
           [threw |-> FALSE, ret |-> ToolResult(tc, ExecuteShellImpl(args, fs), FALSE)] @@ same
      [] OTHER ->
           [threw |-> FALSE,
            ret |-> ToolResult(tc, << Lit("Unknown tool: "), Lit(functionName) >>, FALSE)]
             @@ same

\* executeToolCall without its catch block
ExecuteToolCallNoCatch(tc, cache, dir, fs, writable) ==
  ToolTry(tc, cache, dir, fs, writable)

\* executeToolCall(toolCall): the try block, and the catch block (192-200)
\* that turns an error into a tool result
ExecuteToolCall(tc, cache, dir, fs, writable) ==
  LET t == ToolTry(tc, cache, dir, fs, writable) IN
  IF t.threw
  THEN [t EXCEPT !.threw = FALSE, !.ret = ToolError(tc, t.e)]
  ELSE t

(***************************************************************************)
(* The remote service.                                                      *)
(***************************************************************************)
\* what one fetch can come to: an HTTP response, or a rejected promise
Http(status, marker) == [kind |-> "http", status |-> status, unavailable |-> marker]

Rejected == [kind |-> "reject", status |-> 0, unavailable |-> FALSE]

\* the rejection of a fetch whose signal is aborted
AbortError == [kind |-> "abort", status |-> 0, unavailable |-> FALSE]

\* a fetch that has not settled yet
Pending == [kind |-> "pending", status |-> 0, unavailable |-> FALSE]

\* the outcomes of a fetch whose signal is not aborted; the marker says
\* whether the body text contains "unavailable"
Responses ==
  { Http(200, FALSE), Http(503, FALSE), Http(404, TRUE), Http(400, FALSE), Rejected }

\* response.ok
Ok(r) == r.kind = "http" /\ r.status >= 200 /\ r.status <= 299

\* the j-th invocation of the script that starts at position start
ScriptAt(start, j) == Invocations[((start + j - 2) % Len(Invocations)) + 1]

\* ToolCallsOf with a service that sends the same ids in every turn
ToolCallsOfSameIds(turn) ==
  [j \in 1..scriptLen |->
     [id |-> j, type |-> "function", function |-> ScriptAt(scriptStart, j)]]

\* the tool calls the remote model requests in the tool turn number `turn`;
\* the id of a call is whatever the service sent: a new one for every call,
\* or the same ones again in every turn
ToolCallsOf(turn) ==
  [j \in 1..scriptLen |->
     [id |-> IF freshIds THEN turn * scriptLen + j ELSE j,
      type |-> "function",
      function |-> ScriptAt(scriptStart, j)]]

\* the final answer of n characters that model m gives
AnswerOf(m, n) == [i \in 1..n |-> IF i = 1 THEN m ELSE "!"]

(***************************************************************************)
(* Output units.                                                            *)
(***************************************************************************)
CountNotice(n, iter) == [kind |-> "count", n |-> n, iteration |-> iter]

ToolLine(name, text) == [kind |-> "tool", name |-> name, content |-> text]

CeilingNotice == [kind |-> "ceiling", max |-> maxIterations]

Char(c) == [kind |-> "char", c |-> c]

(***************************************************************************)
(* Errors.                                                                  *)
(***************************************************************************)
NoError == [kind |-> "none", cause |-> "none", status |-> 0]

\* new Error('All models failed or are unavailable') (339)
AllModelsFailed == [cause |-> "All models failed or are unavailable", status |-> 0]

\* new Error(`XAI API error: ${response.status} ...`) (321)
XAIError(r) == [cause |-> "XAI API error", status |-> r.status]

\* new Error(`Streaming API error: ${error.message}`) (443)
StreamingError(e) == [kind |-> "Streaming API error", cause |-> e.cause, status |-> e.status]

(***************************************************************************)
(* Init.                                                                    *)
(***************************************************************************)
InitFiles ==
  [p \in Paths |->
     CASE p = "small.txt" -> "small"
       [] p = "edge500.txt" -> "edge500"
       [] p = "edge501.txt" -> "edge501"
       [] p = "big.txt" -> "big"
       [] OTHER -> "absent"]

\* whether the invocation makes executeToolCall write an overflow file
WritesOverflow(inv) ==
  /\ inv.name = "readFile"
  /\ JSONParse(inv.arguments).ok
  /\ IsLarge(ReadFileImpl(JSONParse(inv.arguments), InitFiles))

\* no earlier handleSubmit call is unsettled
NoEarlier == [at |-> "none"]

\* no array has been returned by getLogs
NoReturned == [has |-> FALSE, elems |-> << >>]

\* the debug logger as constructed (debug-logger.js 6-11), and not called
NoLogger ==
  /\ logs = << >>
  /\ logged = 0
  /\ returned = NoReturned
  /\ logTrace = << >>

\* a client constructed with a credential and driven directly, without the App
NoApp ==
  /\ apiKey = "key"
  /\ client = "ready"
  /\ appState = "absent"
  /\ isStreaming = FALSE
  /\ abortController = 0
  /\ lastEscapeTime = 0
  /\ now = 0
  /\ fileSearchActive = FALSE
  /\ commandSearchActive = FALSE
  /\ input = ""
  /\ searchTimeout = FALSE
  /\ userInput = ""
  /\ appMessages = << >>
  /\ submitPc = "idle"
  /\ earlier = NoEarlier
  /\ submits = 0
  /\ leakedIntervals = {}
  /\ cleanups = << >>
  /\ rmFails = FALSE
  /\ tempFile = NoTempFile

\* the temp dir may be unwritable in the runs that write to it, and the
\* service may repeat its tool-call ids in the runs that fill the cache
ClientInit ==
  /\ op \in {"tools", "plain"}
  /\ scriptStart \in (IF op = "tools" THEN 1..Len(Invocations) ELSE {1})
  /\ scriptLen \in (IF op = "tools" THEN 1..MaxCalls ELSE {1})
  /\ tmpWritable \in (IF op = "tools"
                          /\ \E j \in 1..scriptLen : WritesOverflow(ScriptAt(scriptStart, j))
                       THEN BOOLEAN ELSE {TRUE})
  /\ freshIds \in (IF op = "tools" /\ tmpWritable
                          /\ \E j \in 1..scriptLen : WritesOverflow(ScriptAt(scriptStart, j))
                    THEN BOOLEAN ELSE {TRUE})
  /\ files = InitFiles
  /\ tempDir = "null"
  /\ toolResultsCache = << >>
  /\ messages = << [role |-> "system", content |-> << Lit("system prompt") >>],
                   [role |-> "user", content |-> << Lit("question") >>] >>
  /\ aborted = FALSE
  /\ pc = "start"
  /\ currentMessages = << >>
  /\ iterationCount = 0
  /\ content = << >>
  /\ toolCalls = << >>
  /\ toolIdx = 0
  /\ toolResults = << >>
  /\ aiToolResults = << >>
  /\ result = NoResult
  /\ emitIdx = 0
  /\ output = << >>
  /\ error = NoError
  /\ useTools = FALSE
  /\ modelIdx = 0
  /\ chatLog = << >>
  /\ toolChats = 0
  /\ plainChats = 0
  /\ body = << >>
  /\ chunks = << >>
  /\ lines = << >>
  /\ lineIdx = 0
  /\ NoApp

Init == ClientInit /\ NoLogger

(***************************************************************************)
(* chat: the fallback chat call (api.js 280-340).                           *)
(***************************************************************************)
\* what the try block of one loop iteration does with the settled fetch
TryBlock(r) ==
  CASE r.kind # "http" -> "throw"
    [] Ok(r) -> "return"
    [] r.status = 503 \/ r.unavailable -> "continue"
    [] OTHER -> "throw"

\* the catch block logs the error and lets the for loop go on
CatchBlock(outcome) == IF outcome = "throw" THEN "continue" ELSE outcome

\* FetchCall walking the list from its end
FetchCallReversed(log, i) ==
  Append(log, [model |-> modelNames[Len(modelNames) + 1 - i], resp |-> Pending])

\* the fetch of the model at position i is issued
FetchCall(log, i) == Append(log, [model |-> modelNames[i], resp |-> Pending])

\* Settle leaving the fetch in flight
SettleKeepsPending(log, r) == log

\* the fetch in flight settles with r
Settle(log, r) == [log EXCEPT ![Len(log)].resp = r]

\* ChatCall starting one model further down the list in every request
ChatCallRotates(tools) ==
  LET first == ((toolChats + plainChats) % Len(modelNames)) + 1 IN
  /\ useTools' = tools
  /\ modelIdx' = first
  /\ chatLog' = FetchCall(<< >>, first)
  /\ toolChats' = IF tools THEN toolChats + 1 ELSE toolChats
  /\ plainChats' = IF tools THEN plainChats ELSE plainChats + 1
  /\ pc' = "fetch"

\* chat(messages, tools, abortSignal) is called: up to the first fetch
ChatCall(tools) ==
  /\ useTools' = tools
  /\ modelIdx' = 1
  /\ chatLog' = FetchCall(<< >>, 1)
  /\ toolChats' = IF tools THEN toolChats + 1 ELSE toolChats
  /\ plainChats' = IF tools THEN plainChats ELSE plainChats + 1
  /\ pc' = "fetch"

NoChat == UNCHANGED << useTools, modelIdx, toolChats, plainChats >> /\ chatLog' = << >>

(***************************************************************************)
(* streamWithTools (api.js 342-445).                                        *)
(***************************************************************************)
\* Frame with the history growing on the caller's list
FrameSharedList ==
  /\ UNCHANGED << op, scriptStart, scriptLen, tmpWritable, freshIds, body, chunks, lines,
                  lineIdx, appVars >>
  /\ messages' = (IF pc = "start" THEN messages ELSE currentMessages)

\* what a step of streamWithTools never changes: its arguments (the
\* caller's list is copied at 344 and the copy is replaced, never pushed
\* onto, at 398) and the state of chatStream
Frame ==
  UNCHANGED << op, scriptStart, scriptLen, tmpWritable, freshIds, messages, body, chunks,
               lines, lineIdx, appVars >>

\* Finish leaving the generator where it is
FinishNever == pc' = pc

\* the generator returns
Finish == pc' = "done"

\* WhileHead with the loop condition off by one: iterationCount <= maxIterations
WhileHeadOffByOne(cnt) ==
  IF cnt <= maxIterations
  THEN IF aborted
       THEN pc' = "done" /\ NoChat /\ UNCHANGED output
       ELSE ChatCall(TRUE) /\ UNCHANGED output
  ELSE /\ output' = Append(output, CeilingNotice)
       /\ pc' = "ceiling"
       /\ NoChat

\* the head of the while loop with iterationCount = cnt (349-356), and the
\* safety check behind the loop when the condition fails (426-429)
WhileHead(cnt) ==
  IF cnt < maxIterations
  THEN IF aborted
       THEN Finish /\ NoChat /\ UNCHANGED output
       ELSE ChatCall(TRUE) /\ UNCHANGED output
  ELSE /\ output' = Append(output, CeilingNotice)
       /\ pc' = "ceiling"
       /\ NoChat

\* EmitFrom walking the string from its end
EmitFromBackwards(c, i) ==
  IF i <= Len(c) /\ ~aborted
  THEN /\ output' = Append(output, Char(c[Len(c) + 1 - i]))
       /\ emitIdx' = i + 1
       /\ pc' = "emit"
  ELSE /\ pc' = "done"
       /\ UNCHANGED << output, emitIdx >>

\* the for loop over the characters of c at position i (413-419, 431-437)
EmitFrom(c, i) ==
  IF i <= Len(c) /\ ~aborted
  THEN /\ output' = Append(output, Char(c[i]))
       /\ emitIdx' = i + 1
       /\ pc' = "emit"
  ELSE /\ Finish
       /\ UNCHANGED << output, emitIdx >>

\* ForAI handing the model the result as the UI shows it
ForAISummary(res, tc, cache) == res

\* the message a cached result is folded into history as (380-388)
ForAI(res, tc, cache) ==
  IF "cached" \in DOMAIN res /\ res.cached /\ tc.id \in DOMAIN cache
  THEN [res EXCEPT !.content = cache[tc.id].fullContent]
  ELSE res

\* Fold with the assistant message behind the tool results
FoldResultsFirst(msgs, text, calls, ai) ==
  msgs \o ai \o << [role |-> "assistant", content |-> text, tool_calls |-> calls] >>

\* the history after an iteration (398-406)
Fold(msgs, text, calls, ai) ==
  msgs \o << [role |-> "assistant", content |-> text, tool_calls |-> calls] >> \o ai

\* ForHead folding what it has into the history when the token has fired
ForHeadKeepsPartial(i, ai) ==
  IF aborted
  THEN /\ Finish /\ NoChat
       /\ toolIdx' = i /\ aiToolResults' = ai
       /\ currentMessages' = Fold(currentMessages, content, toolCalls, ai)
       /\ UNCHANGED << iterationCount, output >>
  ELSE IF i <= Len(toolCalls)
  THEN /\ pc' = "toolExec" /\ NoChat
       /\ toolIdx' = i /\ aiToolResults' = ai
       /\ UNCHANGED << currentMessages, iterationCount, output >>
  ELSE /\ currentMessages' = Fold(currentMessages, content, toolCalls, ai)
       /\ iterationCount' = iterationCount + 1
       /\ toolIdx' = i /\ aiToolResults' = ai
       /\ WhileHead(iterationCount + 1)

\* the head of the for loop over toolCalls at position i with the AI
\* results ai (368-373), and the code behind the loop (391-408)
ForHead(i, ai) ==
  IF aborted
  THEN /\ Finish /\ NoChat
       /\ toolIdx' = i /\ aiToolResults' = ai
       /\ UNCHANGED << currentMessages, iterationCount, output >>
  ELSE IF i <= Len(toolCalls)
  THEN /\ pc' = "toolExec" /\ NoChat
       /\ toolIdx' = i /\ aiToolResults' = ai
       /\ UNCHANGED << currentMessages, iterationCount, output >>
  ELSE /\ currentMessages' = Fold(currentMessages, content, toolCalls, ai)
       /\ iterationCount' = iterationCount + 1
       /\ toolIdx' = i /\ aiToolResults' = ai
       /\ WhileHead(iterationCount + 1)

\* the first next() of the generator: 343-356
Start ==
  /\ op = "tools" /\ pc = "start"
  /\ currentMessages' = messages
  /\ WhileHead(0)
  /\ Frame
  /\ UNCHANGED << files, tempDir, toolResultsCache, aborted, iterationCount, content,
                  toolCalls, toolIdx, toolResults, aiToolResults, result, emitIdx,
                  error >>

\* ChatReturn handing the answer over as one unit
ChatReturnWholeAnswer(log) ==
  LET m == log[Len(log)].model IN
  /\ chatLog' = log
  /\ modelIdx' = 0
  /\ UNCHANGED << useTools, toolChats, plainChats >>
  /\ \/ /\ useTools
        /\ content' = << >>
        /\ toolCalls' = ToolCallsOf(iterationCount)
        /\ output' = Append(output, CountNotice(scriptLen, iterationCount + 1))
        /\ pc' = "toolLoop"
        /\ UNCHANGED emitIdx
     \/ \E n \in 0..MaxChars :
          /\ content' = AnswerOf(m, n)
          /\ toolCalls' = << >>
          /\ output' = Append(output, Char(AnswerOf(m, n)))
          /\ emitIdx' = n + 1
          /\ pc' = "emit"

\* chat returns the response of the model that answered (324-330), and
\* streamWithTools goes on to its next yield: the tool-count notice (361)
\* or the first character of the answer (412-418, 430-436)
ChatReturn(log) ==
  LET m == log[Len(log)].model IN
  /\ chatLog' = log
  /\ modelIdx' = 0
  /\ UNCHANGED << useTools, toolChats, plainChats >>
  /\ \/ /\ useTools
        /\ content' = << >>
        /\ toolCalls' = ToolCallsOf(iterationCount)
        /\ output' = Append(output, CountNotice(scriptLen, iterationCount + 1))
        /\ pc' = "toolLoop"
        /\ UNCHANGED emitIdx
     \/ \E n \in 0..MaxChars :
          /\ content' = AnswerOf(m, n)
          /\ toolCalls' = << >>
          /\ EmitFrom(AnswerOf(m, n), 1)

\* ChatContinue giving up one model early
ChatContinueGivesUpEarly(log) ==
  /\ UNCHANGED << useTools, toolChats, plainChats, content, toolCalls, output, emitIdx >>
  /\ IF modelIdx < Len(modelNames) - 1
     THEN /\ modelIdx' = modelIdx + 1
          /\ chatLog' = FetchCall(log, modelIdx + 1)
          /\ pc' = "fetch"
          /\ UNCHANGED error
     ELSE /\ modelIdx' = 0
          /\ chatLog' = log
          /\ pc' = "failed"
          /\ error' = StreamingError(AllModelsFailed)

\* ChatContinue with streamWithTools swallowing the failure of chat
ChatContinueSwallows(log) ==
  /\ UNCHANGED << useTools, toolChats, plainChats, content, toolCalls, output, emitIdx >>
  /\ IF modelIdx < Len(modelNames)
     THEN /\ modelIdx' = modelIdx + 1
          /\ chatLog' = FetchCall(log, modelIdx + 1)
          /\ pc' = "fetch"
          /\ UNCHANGED error
     ELSE /\ modelIdx' = 0
          /\ chatLog' = log
          /\ pc' = "done"
          /\ UNCHANGED error

\* chat goes on to the next model (318, 331-336), or has none left (338-339)
\* and streamWithTools rethrows (440-444)
ChatContinue(log) ==
  /\ UNCHANGED << useTools, toolChats, plainChats, content, toolCalls, output, emitIdx >>
  /\ IF modelIdx < Len(modelNames)
     THEN /\ modelIdx' = modelIdx + 1
          /\ chatLog' = FetchCall(log, modelIdx + 1)
          /\ pc' = "fetch"
          /\ UNCHANGED error
     ELSE /\ modelIdx' = 0
          /\ chatLog' = log
          /\ pc' = "failed"
          /\ error' = StreamingError(AllModelsFailed)

\* an error leaves chat, and streamWithTools rethrows (440-444)
ChatThrow(log, e) ==
  /\ UNCHANGED << useTools, toolChats, plainChats, content, toolCalls, output, emitIdx >>
  /\ modelIdx' = 0
  /\ chatLog' = log
  /\ pc' = "failed"
  /\ error' = StreamingError(e)

\* the fetch in flight settles (299-336)
FetchSettle ==
  /\ op = "tools" /\ pc = "fetch"
  /\ \E r \in (IF aborted THEN {AbortError} ELSE Responses) :
       LET log == Settle(chatLog, r)
           outcome == CatchBlock(TryBlock(r))
       IN
       CASE outcome = "return" -> ChatReturn(log) /\ UNCHANGED error
         [] outcome = "continue" -> ChatContinue(log)
         [] outcome = "throw" -> ChatThrow(log, XAIError(r))
  /\ Frame
  /\ UNCHANGED << files, tempDir, toolResultsCache, aborted, currentMessages,
                  iterationCount, toolIdx, toolResults, aiToolResults, result >>

\* the generator resumes behind the tool-count notice (365-373)
ToolsBegin ==
  /\ op = "tools" /\ pc = "toolLoop"
  /\ toolResults' = << >>
  /\ ForHead(1, << >>)
  /\ Frame
  /\ UNCHANGED << files, tempDir, toolResultsCache, aborted, content, toolCalls,
                  result, emitIdx, error >>

\* executeToolCall settles, and the progress line is yielded (373-377);
\* an error thrown by it would reach the catch of streamWithTools (440-444)
ToolExecDone ==
  /\ op = "tools" /\ pc = "toolExec"
  /\ LET x == ExecuteToolCall(toolCalls[toolIdx], toolResultsCache, tempDir, files,
                              tmpWritable)
     IN /\ toolResultsCache' = x.cache
        /\ tempDir' = x.tempDir
        /\ files' = x.files
        /\ IF x.threw
           THEN /\ pc' = "failed"
                /\ error' = StreamingError([cause |-> x.e, status |-> 0])
                /\ UNCHANGED << result, toolResults, output >>
           ELSE /\ result' = x.ret
                /\ toolResults' = Append(toolResults, x.ret)
                /\ output' = Append(output, ToolLine(toolCalls[toolIdx].function.name,
                                                     x.ret.content))
                /\ pc' = "toolYield"
                /\ UNCHANGED error
  /\ NoChat
  /\ Frame
  /\ UNCHANGED << aborted, currentMessages, iterationCount, content, toolCalls, toolIdx,
                  aiToolResults, emitIdx >>

\* the generator resumes behind the progress line (380-389, 368-373)
ToolNext ==
  /\ op = "tools" /\ pc = "toolYield"
  /\ ForHead(toolIdx + 1,
             Append(aiToolResults, ForAI(result, toolCalls[toolIdx], toolResultsCache)))
  /\ Frame
  /\ UNCHANGED << files, tempDir, toolResultsCache, aborted, content, toolCalls,
                  toolResults, result, emitIdx, error >>

\* the generator resumes behind a character of the answer (413-419, 431-437)
EmitNext ==
  /\ op = "tools" /\ pc = "emit"
  /\ EmitFrom(content, emitIdx)
  /\ NoChat
  /\ Frame
  /\ UNCHANGED << files, tempDir, toolResultsCache, aborted, currentMessages,
                  iterationCount, content, toolCalls, toolIdx, toolResults,
                  aiToolResults, result, error >>

\* CeilingResume with the tools left enabled in the forced call
CeilingResumeWithTools ==
  /\ op = "tools" /\ pc = "ceiling"
  /\ ChatCall(TRUE)
  /\ Frame
  /\ UNCHANGED << files, tempDir, toolResultsCache, aborted, currentMessages,
                  iterationCount, content, toolCalls, toolIdx, toolResults,
                  aiToolResults, result, emitIdx, output, error >>

\* the generator resumes behind the ceiling notice: the forced call (429)
CeilingResume ==
  /\ op = "tools" /\ pc = "ceiling"
  /\ ChatCall(FALSE)
  /\ Frame
  /\ UNCHANGED << files, tempDir, toolResultsCache, aborted, currentMessages,
                  iterationCount, content, toolCalls, toolIdx, toolResults,
                  aiToolResults, result, emitIdx, output, error >>

\* the caller fires the cancellation token, which it created for this call:
\* abortController.abort(), at any suspension point of the running call
Abort ==
  /\ ~aborted
  /\ pc \notin {"start", "done", "failed"}
  /\ aborted' = TRUE
  /\ UNCHANGED << op, scriptStart, scriptLen, tmpWritable, freshIds, files, tempDir,
                  toolResultsCache, messages, pc, currentMessages, iterationCount,
                  content, toolCalls, toolIdx, toolResults, aiToolResults, result,
                  emitIdx, output, error, useTools, modelIdx, chatLog, toolChats,
                  plainChats, body, chunks, lines, lineIdx, appVars >>

(***************************************************************************)
(* chatStream: the plain streaming call (api.js 447-542).                   *)
(***************************************************************************)
\* one line of the event stream: whether it starts with "data: ", what
\* follows the prefix, and the delta.content a well-formed payload carries
DeltaLine(m, k) == [data |-> TRUE, payload |-> "json", delta |-> << m, k >>]

DoneLine == [data |-> TRUE, payload |-> "[DONE]", delta |-> << >>]

\* a payload JSON.parse rejects
GarbledLine == [data |-> TRUE, payload |-> "garbled", delta |-> << >>]

\* a well-formed payload without delta.content
EmptyDeltaLine == [data |-> TRUE, payload |-> "json", delta |-> << >>]

\* a line without the "data: " prefix (the empty line between two events)
BlankLine == [data |-> FALSE, payload |-> "", delta |-> << >>]

\* a line of the event stream that a chunk boundary cuts reaches the
\* decoder as two pieces, each a line of its own after split('\n') (505):
\* the head, which is a proper prefix of the line (with the whole "data: "
\* prefix when the cut is behind it, and then a payload that is neither
\* "[DONE]" nor valid JSON), and the tail, which does not start with
\* "data: "
CutHead(line, prefixed) ==
  [data |-> prefixed, payload |-> "cut", delta |-> << >>, whole |-> line]

CutTail == [data |-> FALSE, payload |-> "rest", delta |-> << >>]

\* the response bodies model m may stream, each as its sequence of chunks
StreamBodies(m) ==
  { << << DeltaLine(m, 1), BlankLine >>, << DeltaLine(m, 2), BlankLine, DoneLine >> >>,
    << << DeltaLine(m, 1), GarbledLine, DeltaLine(m, 2), DoneLine, DeltaLine(m, 3) >>,
       << DeltaLine(m, 4) >> >>,
    << << EmptyDeltaLine, DeltaLine(m, 1) >> >>,
    << << DeltaLine(m, 1), BlankLine, CutHead(DeltaLine(m, 2), TRUE) >>,
       << CutTail, BlankLine, DoneLine >> >>,
    << << CutHead(DeltaLine(m, 1), FALSE) >>, << CutTail, BlankLine, DoneLine >> >>,
    << >> }

\* new Error('All streaming models failed or are unavailable') (541)
AllStreamingFailed ==
  [kind |-> "none", cause |-> "All streaming models failed or are unavailable", status |-> 0]

\* what the try block does with the settled fetch (463-489)
StreamTryBlock(r) ==
  CASE r.kind # "http" -> "throw"
    [] Ok(r) -> "read"
    [] r.status = 503 \/ r.unavailable -> "continue"
    [] OTHER -> "throw"

\* the catch block logs the error and lets the for loop go on (533-537)
StreamCatchBlock(outcome) == IF outcome = "throw" THEN "continue" ELSE outcome

\* NextEvent stopping at a line whose payload JSON.parse rejects
RECURSIVE NextEventStopsAtGarbled(_, _)
NextEventStopsAtGarbled(ls, i) ==
  IF i > Len(ls) THEN i
  ELSE IF ls[i].data /\ (ls[i].payload # "json" \/ ls[i].delta # << >>)
  THEN i
  ELSE NextEventStopsAtGarbled(ls, i + 1)

\* the position of the first line from i on that yields or ends the stream
\* (508-526); Len(ls) + 1 when the chunk has none
RECURSIVE NextEvent(_, _)
NextEvent(ls, i) ==
  IF i > Len(ls) THEN i
  ELSE IF ls[i].data /\ (ls[i].payload = "[DONE]" \/ (ls[i].payload = "json" /\ ls[i].delta # << >>))
  THEN i
  ELSE NextEvent(ls, i + 1)

StreamFrame ==
  UNCHANGED << op, scriptStart, scriptLen, tmpWritable, freshIds, messages, files, tempDir,
               toolResultsCache, aborted, currentMessages, iterationCount, content,
               toolCalls, toolIdx, toolResults, aiToolResults, result, emitIdx,
               useTools, toolChats, plainChats, appVars >>

\* the for loop goes on to the next model (482, 533-538), or has none left (540-541)
StreamContinue(log) ==
  /\ UNCHANGED << output, chunks, lines, lineIdx >>
  /\ IF modelIdx < Len(modelNames)
     THEN /\ modelIdx' = modelIdx + 1
          /\ chatLog' = FetchCall(log, modelIdx + 1)
          /\ pc' = "csFetch"
          /\ UNCHANGED error
     ELSE /\ modelIdx' = 0
          /\ chatLog' = log
          /\ pc' = "failed"
          /\ error' = AllStreamingFailed

\* the head of the while loop over the reads (494-502)
ReadHead(rest) ==
  /\ chunks' = rest
  /\ pc' = IF aborted THEN "done" ELSE "csRead"

\* DecodeFrom leaving only the for loop at the terminator
DecodeFromBreaksAtDone(ls, i, rest) ==
  LET k == NextEvent(ls, i) IN
  /\ lines' = ls
  /\ lineIdx' = k + 1
  /\ IF k > Len(ls) \/ ls[k].payload = "[DONE]"
     THEN /\ chunks' = rest
          /\ pc' = IF aborted THEN "done" ELSE "csRead"
          /\ UNCHANGED output
     ELSE /\ output' = Append(output, [kind |-> "delta", text |-> ls[k].delta])
          /\ pc' = "csYield"
          /\ chunks' = rest

\* the for loop over the lines ls of a chunk at position i (508-527)
DecodeFrom(ls, i, rest) ==
  LET k == NextEvent(ls, i) IN
  /\ lines' = ls
  /\ lineIdx' = k + 1
  /\ IF k > Len(ls)
     THEN ReadHead(rest) /\ UNCHANGED output
     ELSE IF ls[k].payload = "[DONE]"
     THEN pc' = "done" /\ chunks' = rest /\ UNCHANGED output
     ELSE /\ output' = Append(output, [kind |-> "delta", text |-> ls[k].delta])
          /\ pc' = "csYield"
          /\ chunks' = rest

\* the first next() of the generator: up to the first fetch (447-471)
StreamStart ==
  /\ op = "plain" /\ pc = "start"
  /\ modelIdx' = 1
  /\ chatLog' = FetchCall(<< >>, 1)
  /\ pc' = "csFetch"
  /\ UNCHANGED << output, error, body, chunks, lines, lineIdx >>
  /\ StreamFrame

\* the fetch in flight settles (463-502)
StreamFetchSettle ==
  /\ op = "plain" /\ pc = "csFetch"
  /\ \E r \in (IF aborted THEN {AbortError} ELSE Responses) :
       LET log == Settle(chatLog, r)
           outcome == StreamCatchBlock(StreamTryBlock(r))
       IN
       CASE outcome = "read" ->
              \E b \in StreamBodies(modelNames[modelIdx]) :
                /\ chatLog' = log
                /\ body' = b
                /\ ReadHead(b)
                /\ UNCHANGED << modelIdx, output, error, lines, lineIdx >>
         [] outcome = "continue" -> StreamContinue(log) /\ UNCHANGED body
         [] outcome = "throw" ->
              /\ pc' = "failed" /\ error' = XAIError(r) @@ [kind |-> "none"]
              /\ chatLog' = log
              /\ UNCHANGED << modelIdx, output, body, chunks, lines, lineIdx >>
  /\ StreamFrame

\* reader.read() settles: the next chunk, the end of the body, or a failure
\* of the connection (502-527)
StreamRead ==
  /\ op = "plain" /\ pc = "csRead"
  /\ IF aborted
     THEN StreamContinue(chatLog)
     ELSE \/ /\ chunks = << >>
             /\ pc' = "done"
             /\ UNCHANGED << modelIdx, chatLog, output, error, chunks, lines, lineIdx >>
          \/ /\ chunks # << >>
             /\ DecodeFrom(Head(chunks), 1, Tail(chunks))
             /\ UNCHANGED << modelIdx, chatLog, error >>
          \/ StreamContinue(chatLog)
  /\ UNCHANGED body
  /\ StreamFrame

\* the generator resumes behind a yielded delta (520-527)
StreamResume ==
  /\ op = "plain" /\ pc = "csYield"
  /\ DecodeFrom(lines, lineIdx, chunks)
  /\ UNCHANGED << modelIdx, chatLog, error, body >>
  /\ StreamFrame

Next ==
  \/ Start
  \/ FetchSettle
  \/ ToolsBegin
  \/ ToolExecDone
  \/ ToolNext
  \/ EmitNext
  \/ CeilingResume
  \/ StreamStart
  \/ StreamFetchSettle
  \/ StreamRead
  \/ StreamResume
  \/ Abort

Spec == Init /\ [][Next]_vars

(***************************************************************************)
(* Properties.                                                              *)
(***************************************************************************)
Terminated == pc \in {"done", "failed"}

\* the number of model turns that returned tool calls: one tool-count notice each
ToolTurns == Cardinality({i \in DOMAIN output : output[i].kind = "count"})

\* C1, as stated: at most 25 tool-enabled chat calls; when all 25 returned
\* tool calls exactly one tools-disabled call follows, and none in any
\* other case.
C1_AsStated ==
  /\ toolChats <= maxIterations
  /\ plainChats <= 1
  /\ (Terminated /\ ToolTurns = maxIterations) => plainChats = 1
  /\ plainChats = 1 => ToolTurns = maxIterations

\* C1, amended: at most 25 tool-enabled chat calls are issued; exactly one
\* tools-disabled call is issued when all 25 tool iterations were completed
\* (each call returned tool calls and the token did not fire before the
\* results were folded into history), after it the call only emits the
\* answer and terminates, and no tools-disabled call is issued otherwise.
C1_Ceiling ==
  /\ toolChats <= maxIterations
  /\ plainChats <= 1
  /\ plainChats = 1 =>
       /\ iterationCount = maxIterations
       /\ toolChats = maxIterations
       /\ ToolTurns = maxIterations
       /\ pc \in {"fetch", "emit", "done", "failed"}
  /\ Terminated => (plainChats = 1 <=> iterationCount = maxIterations)

\* C1 witness: the forced answer has been emitted after 25 tool iterations
C1_Witness ==
  /\ pc = "done" /\ plainChats = 1 /\ toolChats = maxIterations
  /\ Len(content) > 0 /\ output[Len(output)].kind = "char"

\* C2: when a chat call is issued, every earlier turn that returned tool
\* calls has added to the working history exactly one assistant message
\* echoing its tool calls, followed by one tool result per call, in call order.
C2_HistoryBlocks ==
  (op = "tools" /\ pc = "fetch") =>
    /\ Len(currentMessages) = Len(messages) + ToolTurns * (1 + scriptLen)
    /\ \A k \in 1..ToolTurns :
         LET base == Len(messages) + (k - 1) * (1 + scriptLen) IN
         /\ currentMessages[base + 1].role = "assistant"
         /\ currentMessages[base + 1].tool_calls = ToolCallsOf(k - 1)
         /\ \A j \in 1..scriptLen :
              /\ currentMessages[base + 1 + j].role = "tool"
              /\ currentMessages[base + 1 + j].tool_call_id = ToolCallsOf(k - 1)[j].id

\* C2 witness: the third chat call is issued after two turns of two tool calls
C2_Witness ==
  /\ op = "tools" /\ pc = "fetch" /\ scriptLen = 2 /\ ToolTurns = 2
  /\ Len(currentMessages) = Len(messages) + 6

\* a fetch is issued by the step
FetchIssued ==
  /\ pc' \in {"fetch", "csFetch"}
  /\ << modelIdx, toolChats, plainChats >>' # << modelIdx, toolChats, plainChats >>

\* C3, as stated: once the token has fired, streamWithTools emits no
\* further output unit of any kind.
C3_NoOutputAfterAbort == [][(op = "tools" /\ aborted) => output' = output]_vars

\* C4, as stated: once the token has fired, no fetch attempt and no chat
\* call is begun, the forced tools-disabled call included.
C4_NoRequestAfterAbort == [][aborted => ~FetchIssued]_vars

\* a non-2xx response that is neither a 503 nor marked "unavailable"
Fatal(r) == r.kind = "http" /\ ~Ok(r) /\ r.status # 503 /\ ~r.unavailable

\* a non-2xx response that is a 503 or marked "unavailable"
Retryable(r) == r.kind = "http" /\ ~Ok(r) /\ (r.status = 503 \/ r.unavailable)

\* C5: the models of one chat call are requested in list order, no model is
\* requested after one has answered successfully, and the call returns the
\* answer of that model.
C5_FirstSuccessWins ==
  (op = "tools" /\ chatLog # << >>) =>
    LET last == chatLog[Len(chatLog)] IN
    /\ Len(chatLog) <= Len(modelNames)
    /\ \A i \in DOMAIN chatLog : chatLog[i].model = modelNames[i]
    /\ \A i \in 1..(Len(chatLog) - 1) : ~Ok(chatLog[i].resp) /\ chatLog[i].resp # Pending
    /\ Ok(last.resp) =>
         /\ pc \notin {"fetch", "failed"}
         /\ content = << >> \/ content[1] = last.model
         /\ pc = "toolLoop" => toolCalls = ToolCallsOf(iterationCount)

\* C5 witness: grok-4 answered 503, grok-beta succeeded and its answer is
\* being emitted; grok-3 was not requested
C5_Witness ==
  /\ op = "tools" /\ pc = "emit" /\ Len(chatLog) = 2
  /\ chatLog[1].resp = Http(503, FALSE) /\ Ok(chatLog[2].resp)
  /\ content[1] = "grok-beta" /\ output[Len(output)] = Char("grok-beta")

\* C6, as stated: a fatal response ends the call with that error, and no
\* later model is requested.
C6_FatalAborts ==
  \A i \in DOMAIN chatLog :
    Fatal(chatLog[i].resp) =>
      /\ i = Len(chatLog)
      /\ pc = "failed"
      /\ error.cause = "XAI API error"
      /\ error.status = chatLog[i].resp.status

\* C7: when every model of the registry has failed retryably, the chat call
\* has failed with the all-models-exhausted error, after exactly one
\* attempt per model, made in registry order.
C7_Exhaustion ==
  (op = "tools" /\ chatLog # << >> /\ \A i \in DOMAIN chatLog : Retryable(chatLog[i].resp)) =>
    /\ \A i \in DOMAIN chatLog : chatLog[i].model = modelNames[i]
    /\ Len(chatLog) <= Len(modelNames)
    /\ Len(chatLog) = Len(modelNames) =>
         pc = "failed" /\ error = StreamingError(AllModelsFailed)
    /\ pc = "failed" => Len(chatLog) = Len(modelNames)

\* C7 witness: three retryable failures of both kinds, then exhaustion
C7_Witness ==
  /\ op = "tools" /\ pc = "failed" /\ Len(chatLog) = 3
  /\ chatLog[1].resp = Http(503, FALSE)
  /\ chatLog[2].resp = Http(404, TRUE)
  /\ chatLog[3].resp = Http(503, FALSE)
  /\ error.cause = AllModelsFailed.cause

\* C8, as stated: of the HTTP failures of a chat call, exhaustion is
\* reported only when every model was attempted and failed retryably, and a
\* fatal response is reported as its own error with its status.
C8_Distinguishable ==
  (op = "tools" /\ pc = "failed" /\ \A i \in DOMAIN chatLog : chatLog[i].resp.kind = "http") =>
    /\ error.cause = AllModelsFailed.cause =>
         /\ Len(chatLog) = Len(modelNames)
         /\ \A i \in DOMAIN chatLog : Retryable(chatLog[i].resp)
    /\ \A i \in DOMAIN chatLog :
         Fatal(chatLog[i].resp) =>
           error.cause = "XAI API error" /\ error.status = chatLog[i].resp.status

\* the invocations the claim names as failing
Failing(tc) ==
  LET args == JSONParse(tc.function.arguments) IN
  \/ ~args.ok
  \/ tc.function.name \notin {"listFiles", "readFile", "writeFile", "executeShell"}
  \/ tc.function.name = "readFile" /\ files[args.path] = "absent"
  \/ tc.function.name = "executeShell" /\ ~ShellRun(args, files).ok
  \/ WritesOverflow(tc.function) /\ ~tmpWritable

\* the text starts as the error descriptions of the executor do
DescribesError(text) ==
  text[1] \in { Lit("Error: "), Lit("Error reading file: "), Lit("Unknown tool: "),
                Lit("Error executing \"") }

\* C9: executeToolCall never throws: every execution ends in a tool result
\* carrying the id of the invocation, an error description for a failing
\* invocation; no failure of the stream stems from a tool, and unless the
\* token fired the result is folded into history for the next model call.
C9_NeverThrows ==
  /\ [](op = "tools" =>
          /\ pc = "failed" => error = StreamingError(AllModelsFailed)
          /\ pc = "toolYield" =>
               /\ result.role = "tool"
               /\ result.tool_call_id = toolCalls[toolIdx].id
               /\ Failing(toolCalls[toolIdx]) => DescribesError(result.content))
  /\ [][(pc = "toolExec" /\ pc' # "toolExec") => pc' = "toolYield"]_vars
  /\ [][(pc = "toolYield" /\ pc' # "toolYield" /\ ~aborted) =>
          IF toolIdx < Len(toolCalls)
          THEN /\ pc' = "toolExec"
               /\ aiToolResults'[toolIdx].tool_call_id = result.tool_call_id
          ELSE /\ pc' \in {"fetch", "ceiling"}
               /\ currentMessages'[Len(currentMessages')].tool_call_id = result.tool_call_id
               /\ iterationCount' = iterationCount + 1]_vars

\* C9 witness: the next model call is in flight with the error result of a
\* failed overflow write folded into history
C9_Witness ==
  /\ op = "tools" /\ pc = "fetch" /\ iterationCount = 1 /\ ~tmpWritable
  /\ currentMessages[Len(currentMessages)].role = "tool"
  /\ currentMessages[Len(currentMessages)].content = << Lit("Error: "), Err("ENOSPC", ".") >>

\* the flag of a tool result; the results of the catch block carry none
Cached(res) == "cached" \in DOMAIN res /\ res.cached

\* the tool call just executed is a readFile with well-formed arguments
ReadFileDone ==
  /\ op = "tools" /\ pc = "toolYield"
  /\ toolCalls[toolIdx].function.name = "readFile"
  /\ JSONParse(toolCalls[toolIdx].function.arguments).ok

C11_TwoViews ==
  op = "tools" =>
    /\ pc = "toolYield" =>
         /\ toolResults[toolIdx] = result
         /\ output[Len(output)] =
              ToolLine(toolCalls[toolIdx].function.name, result.content)
    /\ pc \in {"toolExec", "toolYield", "fetch", "ceiling"} =>
       \A j \in DOMAIN aiToolResults :
         LET ui == toolResults[j]
             ai == aiToolResults[j]
             p == JSONParse(toolCalls[j].function.arguments).path
         IN
         /\ ai.tool_call_id = toolCalls[j].id
         /\ IF Cached(ui)
            THEN /\ ui.content[1] = Lit("Read file: ")
                 /\ ai.content = << Lit("Contents of "), Abs(p), Lit(":\n"), Blob(files[p]) >>
                 /\ ai.cached
            ELSE ai = ui
    /\ \A i \in DOMAIN currentMessages :
         currentMessages[i].role = "tool" =>
           currentMessages[i].content[1] # Lit("Read file: ")
    /\ (pc = "fetch" /\ ToolTurns > 0) =>
         \A j \in 1..scriptLen :
           currentMessages[Len(currentMessages) - scriptLen + j] = aiToolResults[j]

\* C11 witness: the UI was shown the summary of big.txt and the next model
\* call is in flight with the full text in its history
C11_Witness ==
  /\ op = "tools" /\ pc = "fetch" /\ ToolTurns = 1
  /\ \E i \in DOMAIN output :
       /\ output[i].kind = "tool"
       /\ output[i].content[1] = Lit("Read file: ")
       /\ output[i].content[2] = Raw("big.txt")
  /\ currentMessages[Len(currentMessages)].content =
       << Lit("Contents of "), Abs("big.txt"), Lit(":\n"), Blob("big") >>

\* the number of executed tool calls that stored their result in the cache:
\* one summary line each
CachingCalls ==
  Cardinality({i \in DOMAIN output :
                 output[i].kind = "tool" /\ output[i].content[1] = Lit("Read file: ")})

InFlight == {i \in DOMAIN chatLog : chatLog[i].resp = Pending}

\* the tool calls whose execution has not settled
Running == IF pc = "toolExec" THEN {toolIdx} ELSE {}

\* C13: at most one operation is in progress at any time, a model request
\* or a tool execution; the request in flight is the latest one of the chat
\* call being awaited; a tool call runs only when all tool calls requested
\* before it in the turn have finished, in the order of the request.
C13_Sequential ==
  op = "tools" =>
    /\ Cardinality(InFlight) + Cardinality(Running) <= 1
    /\ InFlight \subseteq {Len(chatLog)}
    /\ InFlight # {} <=> pc = "fetch"
    /\ pc \in {"toolExec", "toolYield"} =>
         /\ Len(toolResults) = (IF pc = "toolExec" THEN toolIdx - 1 ELSE toolIdx)
         /\ \A j \in DOMAIN toolResults : toolResults[j].tool_call_id = toolCalls[j].id

\* C13 witness: the second tool call of a turn runs, the first one has
\* finished and no model request is in flight
C13_Witness ==
  /\ op = "tools" /\ pc = "toolExec" /\ toolIdx = 2
  /\ Len(toolResults) = 1 /\ InFlight = {}

\* the number of answer characters among the first i output units
CharsUpTo(i) == Cardinality({k \in 1..i : output[k].kind = "char"})

\* C14: the output of one call is a sequence of iteration blocks (the
\* tool-count notice of iteration k, then one line per tool call in call
\* order), block k before block k + 1, a tool line only when its tool has
\* finished; behind all blocks come the ceiling notice, if any, and the
\* characters of the answer in string order.
C14_OutputOrder ==
  op = "tools" =>
    /\ \A i \in DOMAIN output :
         LET u == output[i]
             k == (i - 1) \div (1 + scriptLen)
             r == (i - 1) % (1 + scriptLen)
         IN
         CASE u.kind = "count" -> r = 0 /\ u.iteration = k + 1 /\ u.n = scriptLen
           [] u.kind = "tool" -> r > 0 /\ u.name = ScriptAt(scriptStart, r).name
           [] u.kind = "ceiling" ->
                /\ i = maxIterations * (1 + scriptLen) + 1
                /\ i = Len(output) \/ output[i + 1].kind = "char"
           [] u.kind = "char" ->
                /\ r = 0 \/ output[i - 1].kind \in {"char", "ceiling"}
                /\ i = Len(output) \/ output[i + 1].kind = "char"
                /\ u = Char(content[CharsUpTo(i)])
    /\ pc = "toolExec" => Len(output) % (1 + scriptLen) = toolIdx
    /\ pc = "toolYield" =>
         /\ Len(output) % (1 + scriptLen) = (toolIdx + 1) % (1 + scriptLen)
         /\ output[Len(output)].content = result.content

\* C14 witness: two iterations of two tool calls, then an answer of two
\* characters
C14_Witness ==
  /\ op = "tools" /\ pc = "done" /\ scriptLen = 2 /\ Len(output) = 8
  /\ output[1].kind = "count" /\ output[3].kind = "tool" /\ output[4].kind = "count"
  /\ output[7] = Char(content[1]) /\ output[8] = Char("!")

\* C15: the caller's message list keeps its length and its elements in
\* every state of a streamWithTools call, whatever the outcome; the working
\* history is another list, which starts as a copy of it and grows behind it.
C15_CallerListUntouched ==
  op = "tools" =>
    /\ messages = << [role |-> "system", content |-> << Lit("system prompt") >>],
                     [role |-> "user", content |-> << Lit("question") >> ] >>
    /\ pc # "start" =>
         /\ Len(currentMessages) >= Len(messages)
         /\ SubSeq(currentMessages, 1, Len(messages)) = messages

\* C15 witness: the call has failed after the working history had grown by
\* two iterations, and the caller's list still has its two messages
C15_Witness ==
  /\ op = "tools" /\ pc = "failed" /\ iterationCount = 2
  /\ Len(currentMessages) > Len(messages) /\ Len(messages) = 2

\* C16, as stated: a streamWithTools call whose token has fired never ends
\* by throwing; it completes.
C16_CancelNotError == (op = "tools" /\ aborted) => pc # "failed"

\* C17: when the chat call in progress fails and the token has not fired,
\* streamWithTools throws a streaming error in the same step, which emits
\* no output, runs no tool and issues no request; the call is then over: no
\* step follows, so the output emitted before the failure stays as it was.
C17_ChatFailureThrows ==
  /\ []((op = "tools" /\ pc = "failed" /\ ~aborted) =>
          /\ error = StreamingError(AllModelsFailed)
          /\ Len(chatLog) = Len(modelNames)
          /\ \A i \in DOMAIN chatLog : ~Ok(chatLog[i].resp) /\ chatLog[i].resp # Pending)
  /\ [][(/\ op = "tools" /\ pc = "fetch" /\ ~aborted
         /\ modelIdx = Len(modelNames)
         /\ pc' # "fetch"
         /\ ~Ok(chatLog'[Len(chatLog')].resp))
          => /\ pc' = "failed"
             /\ error'.kind = "Streaming API error"
             /\ output' = output
             /\ toolResults' = toolResults
             /\ << toolChats, plainChats >>' = << toolChats, plainChats >>]_vars
  /\ [][op = "tools" => pc # "failed"]_vars

\* C17 witness: the second model request of a call has failed on all three
\* models, with the output of the first iteration emitted before
C17_Witness ==
  /\ op = "tools" /\ pc = "failed" /\ ~aborted /\ toolChats = 2
  /\ Len(output) = 1 + scriptLen
  /\ error = StreamingError(AllModelsFailed)

\* C18, as stated: all fragments one chatStream call yields come from one
\* model.
C18_OneModelFragments ==
  op = "plain" =>
    \A i, j \in DOMAIN output : output[i].text[1] = output[j].text[1]

\* the lines of a sequence of chunks, in order
RECURSIVE Flatten(_)
Flatten(cs) == IF cs = << >> THEN << >> ELSE Head(cs) \o Flatten(Tail(cs))

\* the deltas of the event lines of ls that come before the terminator
RECURSIVE DeltasOf(_)
DeltasOf(ls) ==
  IF ls = << >> \/ Head(ls) = DoneLine THEN << >>
  ELSE IF Head(ls).data /\ Head(ls).payload = "json" /\ Head(ls).delta # << >>
  THEN << Head(ls).delta >> \o DeltasOf(Tail(ls))
  ELSE DeltasOf(Tail(ls))

\* a response body is being read, or has been read to its end
Reading == op = "plain" /\ pc \in {"csRead", "csYield", "done"}

\* the lines of the body the decoder has gone through
Decoded ==
  LET consumed == Len(body) - Len(chunks) IN
  IF consumed = 0 THEN << >>
  ELSE Flatten(SubSeq(body, 1, consumed - 1))
         \o SubSeq(lines, 1, IF lineIdx - 1 < Len(lines) THEN lineIdx - 1 ELSE Len(lines))

\* the texts of the fragments yielded from the stream of model m
FragmentsOf(m) ==
  LET own == SelectSeq(output, LAMBDA u : u.text # << >> /\ u.text[1] = m) IN
  [i \in DOMAIN own |-> own[i].text]

\* C19: once the decoder has met the line "data: [DONE]" the call is over:
\* that line is the last one decoded, the fragments yielded are deltas of
\* lines before it, and no read and no request follows; a call that ends
\* because the body ended has not failed either.
C19_DoneEnds ==
  /\ [](Reading =>
          LET m == modelNames[modelIdx] IN
          /\ \A i \in DOMAIN Decoded :
               Decoded[i] = DoneLine => i = Len(Decoded) /\ pc = "done"
          /\ Len(FragmentsOf(m)) <= Len(DeltasOf(Flatten(body)))
          /\ \A i \in DOMAIN FragmentsOf(m) :
               FragmentsOf(m)[i] = DeltasOf(Flatten(body))[i]
          /\ pc = "done" =>
               /\ error = NoError
               /\ Ok(chatLog[Len(chatLog)].resp)
               /\ ~aborted =>
                    \/ Decoded # << >> /\ Decoded[Len(Decoded)] = DoneLine
                    \/ chunks = << >>)
  /\ [][op = "plain" => pc # "done"]_vars

\* C19 witness: the terminator came in the middle of the first chunk; the
\* two deltas before it were yielded, the second chunk was never read
C19_Witness ==
  /\ Reading /\ pc = "done" /\ ~aborted
  /\ Len(body) = 2 /\ Len(chunks) = 1
  /\ lines[lineIdx - 1] = DoneLine /\ lineIdx <= Len(lines)
  /\ Len(FragmentsOf(modelNames[modelIdx])) = 2

\* C20: a "data: " line whose payload is not valid JSON yields nothing and
\* changes nothing else: the fragments yielded from the stream being read
\* are, in order, the deltas of the well-formed lines decoded so far, and
\* the stream is still the one of the model that answered.
C20_MalformedSkipped ==
  Reading =>
    LET m == modelNames[modelIdx] IN
    /\ \A i \in DOMAIN output : output[i].text # << >>
    /\ FragmentsOf(m) = DeltasOf(Decoded)
    /\ chatLog[Len(chatLog)].model = m
    /\ Ok(chatLog[Len(chatLog)].resp)

\* C20 witness: the decoder went past a malformed line and yielded the
\* delta before it and the delta behind it
C20_Witness ==
  /\ Reading /\ ~aborted
  /\ \E i \in DOMAIN Decoded :
       /\ Decoded[i] = GarbledLine
       /\ \E h \in 1..(i - 1) : Decoded[h] = DeltaLine(modelNames[modelIdx], 1)
       /\ \E h \in (i + 1)..Len(Decoded) : Decoded[h] = DeltaLine(modelNames[modelIdx], 2)
  /\ FragmentsOf(modelNames[modelIdx]) =
       << << modelNames[modelIdx], 1 >>, << modelNames[modelIdx], 2 >> >>

\* C21, as stated: once the token has fired, chatStream yields no further
\* fragment, the fragments of the lines of a chunk already received included.
C21_NoFragmentAfterAbort == [][(op = "plain" /\ aborted) => output' = output]_vars

\* a tool-enabled model turn came back without tool calls: the final answer
FinalAnswerTurn ==
  op = "tools" /\ pc \in {"emit", "done"} /\ toolCalls = << >> /\ plainChats = 0

\* the characters of the answer emitted so far
AnswerUnits == SelectSeq(output, LAMBDA u : u.kind = "char")

\* the tool lines emitted so far
ToolLines == Cardinality({i \in DOMAIN output : output[i].kind = "tool"})

\* C23: when a tool-enabled model turn carries no tool calls, the output
\* units that follow are the characters of its content, one per unit and in
\* order, all of them unless the token fires; the call then ends without an
\* error, and from that turn on no model request is issued, no tool is
\* executed and no ceiling notice is emitted; an empty content produces no
\* output unit.
C23_FinalAnswer ==
  /\ [](FinalAnswerTurn =>
          /\ Len(AnswerUnits) <= Len(content)
          /\ \A i \in DOMAIN AnswerUnits : AnswerUnits[i] = Char(content[i])
          /\ \A i \in DOMAIN output :
               output[i].kind = "char" <=> i > iterationCount * (1 + scriptLen)
          /\ pc = "emit" => Len(AnswerUnits) >= 1 /\ emitIdx = Len(AnswerUnits) + 1
          /\ (pc = "done" /\ ~aborted) => Len(AnswerUnits) = Len(content)
          /\ content = << >> => pc = "done" /\ AnswerUnits = << >>
          /\ error = NoError
          /\ toolChats = iterationCount + 1
          /\ ToolTurns = iterationCount
          /\ ToolLines = iterationCount * scriptLen
          /\ \A i \in DOMAIN output : output[i].kind # "ceiling")
  /\ [][FinalAnswerTurn =>
          /\ FinalAnswerTurn'
          /\ << toolChats, plainChats, toolResults, files, toolResultsCache >>'
               = << toolChats, plainChats, toolResults, files, toolResultsCache >>]_vars

\* C23 witness: after one tool iteration the model answered with two
\* characters, both were emitted and the call is over
C23_Witness ==
  /\ FinalAnswerTurn /\ pc = "done" /\ ~aborted /\ iterationCount = 1
  /\ Len(content) = 2
  /\ AnswerUnits = << Char(content[1]), Char(content[2]) >>

\* the positions of the output that hold the ceiling notice
NoticeAt == {i \in DOMAIN output : output[i] = CeilingNotice}

\* the forced answer is being emitted, or has been
ForcedAnswerTurn == op = "tools" /\ pc \in {"emit", "done"} /\ plainChats = 1

\* C24: the ceiling notice is in the output exactly when 25 tool iterations
\* were completed, once, behind the 25 iteration blocks and before any
\* answer character; the forced call is the one tools-disabled call, issued
\* behind the notice and only there; neither follows a final answer or a
\* loop left because the token had fired; the forced answer is emitted one
\* character per unit in order, and a resumption that finds the token
\* fired emits nothing and ends the call.
C24_CeilingForcedAnswer ==
  /\ [](op = "tools" =>
          /\ NoticeAt # {} <=> iterationCount = maxIterations
          /\ NoticeAt \subseteq {maxIterations * (1 + scriptLen) + 1}
          /\ pc = "ceiling" =>
               plainChats = 0 /\ NoticeAt = {Len(output)} /\ toolChats = maxIterations
          /\ plainChats = 1 <=> (NoticeAt # {} /\ pc # "ceiling")
          /\ plainChats <= 1
          /\ (pc = "fetch" /\ NoticeAt # {}) => ~useTools /\ toolChats = maxIterations
          /\ (pc = "fetch" /\ NoticeAt = {}) => useTools
          /\ ForcedAnswerTurn =>
               /\ Len(AnswerUnits) <= Len(content)
               /\ \A i \in DOMAIN AnswerUnits : AnswerUnits[i] = Char(content[i])
               /\ \A i \in DOMAIN output : output[i].kind = "char" => \A k \in NoticeAt : i > k
               /\ (pc = "done" /\ ~aborted) => Len(AnswerUnits) = Len(content)
               /\ ToolLines = maxIterations * scriptLen)
  /\ [][(op = "tools" /\ (aborted \/ FinalAnswerTurn)) => NoticeAt' = NoticeAt]_vars
  /\ [][(op = "tools" /\ (aborted \/ FinalAnswerTurn) /\ pc # "ceiling")
          => plainChats' = plainChats]_vars
  /\ [][(ForcedAnswerTurn /\ pc = "emit" /\ aborted' = aborted) =>
          IF aborted \/ emitIdx > Len(content)
          THEN output' = output /\ pc' = "done"
          ELSE output' = Append(output, Char(content[emitIdx])) /\ pc' = "emit"]_vars

\* C24 witness: the forced answer of two characters is being emitted right
\* behind the ceiling notice, its first character is out
C24_Witness ==
  /\ ForcedAnswerTurn /\ pc = "emit" /\ ~aborted
  /\ Len(content) = 2 /\ Len(AnswerUnits) = 1
  /\ output[Len(output) - 1] = CeilingNotice
  /\ output[Len(output)] = Char(content[1])

\* the tool call just executed is an executeShell with well-formed arguments
ShellDone ==
  /\ op = "tools" /\ pc = "toolYield"
  /\ toolCalls[toolIdx].function.name = "executeShell"
  /\ JSONParse(toolCalls[toolIdx].function.arguments).ok

\* the exit code a shell report states: what follows "Exit code: "
ReportedCode(text) ==
  IF text[Len(text)] = Lit("\nExit code: 0") THEN Num(0)
  ELSE LET i == CHOOSE k \in DOMAIN text : text[k] = Lit("\nExit code: ") IN text[i + 1]

\* C29: an executeShell call never raises: it ends in a tool result under
\* the id of the call, which reports exit code 0 exactly when the command
\* succeeded and, for a command that exited with another code, was killed
\* by the timeout or could not be spawned, a code other than 0 (the exit
\* code when there is one) with the stdout and stderr sections and the
\* error message; `exit 1` reports 1.  Unless the token has fired the loop
\* goes on with the result in context: to the next tool of the turn, or to
\* the next model request with the result as the last message of history.
C29_ShellNeverRaises ==
  /\ [](ShellDone =>
          LET args == JSONParse(toolCalls[toolIdx].function.arguments)
              r == ShellRun(args, files)
              text == result.content
          IN
          /\ result.role = "tool" /\ result.name = "executeShell"
          /\ result.tool_call_id = toolCalls[toolIdx].id
          /\ "cached" \in DOMAIN result /\ ~result.cached
          /\ output[Len(output)] = ToolLine("executeShell", text)
          /\ ReportedCode(text) = Num(0) <=> r.ok
          /\ r.ok => text[1] = Lit("Executed \"")
          /\ ~r.ok =>
               /\ text[1] = Lit("Error executing \"")
               /\ ReportedCode(text) # Null
               /\ r.code.t = "num" => ReportedCode(text) = r.code
               /\ \E i \in DOMAIN text : text[i] = Lit(":\nStdout: ")
               /\ \E i \in DOMAIN text : text[i] = Lit("\nStderr: ")
               /\ text[Len(text) - 1] = Lit("\nError: ")
               /\ text[Len(text)] = Err(r.message, ".")
          /\ args.command = "exit 1" => ReportedCode(text) = Num(1))
  /\ [][(op = "tools" /\ pc = "toolExec" /\ pc' # "toolExec"
         /\ toolCalls[toolIdx].function.name = "executeShell") =>
          pc' = "toolYield" /\ error' = NoError]_vars
  /\ [][(ShellDone /\ ~aborted /\ pc' # "toolYield") =>
          IF toolIdx < Len(toolCalls)
          THEN pc' = "toolExec" /\ aiToolResults'[toolIdx] = result
          ELSE /\ pc' \in {"fetch", "ceiling"}
               /\ currentMessages'[Len(currentMessages')] = result
               /\ pc' = "fetch" =>
                    /\ toolChats' = toolChats + 1
                    /\ chatLog'[Len(chatLog')].resp = Pending]_vars

\* C29 witness: `exit 1` was run, its report with exit code 1 is the last
\* message of the history, and the next model request is in flight
C29_Witness ==
  /\ op = "tools" /\ pc = "fetch" /\ iterationCount = 1 /\ scriptLen = 1
  /\ LET text == currentMessages[Len(currentMessages)].content IN
     /\ text[1] = Lit("Error executing \"")
     /\ text[2] = Lit("exit 1")
     /\ ReportedCode(text) = Num(1)
     /\ text[Len(text)] = Err("Command failed", ".")

(***************************************************************************)
(* The Ink App (unnamed/part_002) in its process (src/main.js).             *)
(***************************************************************************)
\* the window of the double Escape, in ms (part_002 293)
DoubleEscapeWindow == 500

\* largest number of submits that start a stream
MaxSubmits == 2

\* largest number of Escape key presses that come a whole window or more
\* after the press before
MaxLongGaps == 2

\* largest number of turns of one submit in which the remote model requests tools
MaxToolTurns == 1

\* the requests of the remote model in the runs of the App: a large file
\* read, a small one, a shell command with a large output
AppScripts == {1, 2, 12}

\* what the user types into the input box: plain text, a file reference, a
\* text with a slash in it
Inputs == {"hi", "@small.txt", "a/b"}

\* the variables by what they belong to
envVars ==
  << op, scriptStart, scriptLen, tmpWritable, freshIds, rmFails, apiKey,
     logs, logged, returned, logTrace >>

streamVars == << body, chunks, lines, lineIdx >>

clientVars == << files, tempDir, toolResultsCache >>

genVars ==
  << messages, aborted, pc, currentMessages, iterationCount, content, toolCalls, toolIdx,
     toolResults, aiToolResults, result, emitIdx, output, error, useTools, modelIdx,
     chatLog, toolChats, plainChats, tempFile >>

uiVars ==
  << isStreaming, abortController, lastEscapeTime, now, fileSearchActive,
     commandSearchActive, input, searchTimeout, appMessages >>

submitVars == << userInput, submitPc, earlier, submits, leakedIntervals >>

\* Constructor without the check of the credential
ConstructorNoCheck(key) == [threw |-> FALSE, tempDir |-> "null", cache |-> << >>]

\* new GrokClient() (api.js 12-22): throws when the variable is unset, else
\* an object with no temp dir and an empty cache
Constructor(key) ==
  IF key = "unset"
  THEN [threw |-> TRUE]
  ELSE [threw |-> FALSE, tempDir |-> "null", cache |-> << >>]

\* initialWelcome (part_002 209-214)
Welcome == [role |-> "assistant", content |-> << [kind |-> "welcome"] >>, submit |-> 0]

\* an entry of THINKING_MESSAGES
Thinking == << [kind |-> "thinking"] >>

\* '\n\n[Generation cancelled by user]' (303)
CancelMarker == [kind |-> "cancelled"]

\* `Error during streaming: ${streamError.message}` (604)
StreamErrorText(e) == << [kind |-> "streamError", error |-> e] >>

\* addMessage (402-411); submit is the submit the message belongs to
AddMessage(msgs, role, text, k) ==
  Append(msgs, [role |-> role, content |-> text, submit |-> k])

\* the updater of the update interval and of the final update (563-571,
\* 589-597): the last message takes the response so far when it is a
\* thinking message or an assistant message
ShowContent(msgs, responseContent) ==
  LET lastMessage == msgs[Len(msgs)] IN
  IF lastMessage.content = Thinking \/ lastMessage.role = "assistant"
  THEN [msgs EXCEPT ![Len(msgs)].content = responseContent]
  ELSE msgs

\* the updater of the catch block (602-606)
ShowError(msgs, e) == [msgs EXCEPT ![Len(msgs)].content = StreamErrorText(e)]

\* the updater of the cancel (298-306)
MarkCancelled(msgs) ==
  IF Len(msgs) > 0
  THEN [msgs EXCEPT ![Len(msgs)].content = @ \o << CancelMarker >>]
  ELSE msgs

\* FileUtils.processFileReferences (part_000 100-129): a reference to a
\* file that can be read is replaced by the content of the file, any other
\* reference stays as it is (findAndReadFile returns null, also when the
\* read fails: 93-97)
ProcessFileReferences(text, fs) ==
  IF text = "@small.txt" /\ fs["small.txt"] # "absent"
  THEN << Lit("\n\nFile: "), Raw("small.txt"), Lit("\nfence\n"), Blob(fs["small.txt"]),
          Lit("\nfence\n"), Lit("\n\n[Please analyze the above file(s) ...]") >>
  ELSE << Lit(text) >>

\* allMessages (532-553): the system message, the conversation without
\* thinking messages and the welcome, the user message with the
\* references replaced
AllMessages(msgs, text, fs) ==
  LET kept == SelectSeq(msgs, LAMBDA m : m.content # Thinking /\ m # Welcome) IN
  << [role |-> "system", content |-> << Lit("system prompt") >>] >>
    \o [i \in 1..Len(kept) |-> [role |-> kept[i].role, content |-> kept[i].content]]
    \o << [role |-> "user", content |-> ProcessFileReferences(text, fs)] >>

\* what the debounced effect makes of the input (352-392): "file" for an @
\* behind the last slash with no space after it, "command" for a slash
\* behind the last @
SearchOf(text) ==
  CASE text = "@small.txt" -> "file"
    [] text = "a/b" -> "command"
    [] OTHER -> "none"

\* whether the text holds an @ reference, which processFileReferences
\* awaits a file search for (part_000 107-109)
HasReference(text) == text = "@small.txt"

\* Awaiting with a consumer that awaits in its loop body, so that the
\* event loop turns while the generator is suspended at the progress line
AwaitingAtYield ==
  \/ submitPc = "idle"
  \/ submitPc = "preprocess" /\ HasReference(userInput)
  \/ submitPc = "stream" /\ pc = "fetch" /\ ~aborted
  \/ submitPc = "stream" /\ pc \in {"toolExec", "toolWrite", "toolYield"}

\* the event loop is between two macrotasks: no handleSubmit call is
\* running, or the running one awaits the file search of
\* processFileReferences, a fetch that nothing has aborted, or a tool
\* (its work, or the write of its overflow file).  The loop bodies that
\* consume the generator (part_002 575-585, part_003 497) await nothing, so
\* the generator is resumed in the tick in which it yielded
Awaiting ==
  \/ submitPc = "idle"
  \/ submitPc = "preprocess" /\ HasReference(userInput)
  \/ submitPc = "stream" /\ pc = "fetch" /\ ~aborted
  \/ submitPc = "stream" /\ pc \in {"toolExec", "toolWrite"}

\* the App is mounted and takes key presses and timers
Mounted == appState = "running" /\ Awaiting

\* the state before main() runs
AppInit ==
  /\ op = "tools"
  /\ scriptStart \in AppScripts
  /\ scriptLen = 1
  /\ tmpWritable \in (IF WritesOverflow(ScriptAt(scriptStart, 1)) THEN BOOLEAN ELSE {TRUE})
  /\ freshIds \in (IF tmpWritable /\ MaxToolTurns > 1
                        /\ WritesOverflow(ScriptAt(scriptStart, 1))
                    THEN BOOLEAN ELSE {TRUE})
  /\ rmFails \in (IF tmpWritable /\ WritesOverflow(ScriptAt(scriptStart, 1))
                   THEN BOOLEAN ELSE {FALSE})
  /\ apiKey \in {"unset", "key"}
  /\ client = "none"
  /\ appState = "boot"
  /\ files = InitFiles
  /\ tempDir = "null"
  /\ toolResultsCache = << >>
  /\ messages = << >>
  /\ aborted = FALSE
  /\ pc = "start"
  /\ currentMessages = << >>
  /\ iterationCount = 0
  /\ content = << >>
  /\ toolCalls = << >>
  /\ toolIdx = 0
  /\ toolResults = << >>
  /\ aiToolResults = << >>
  /\ result = NoResult
  /\ emitIdx = 0
  /\ output = << >>
  /\ error = NoError
  /\ useTools = FALSE
  /\ modelIdx = 0
  /\ chatLog = << >>
  /\ toolChats = 0
  /\ plainChats = 0
  /\ body = << >>
  /\ chunks = << >>
  /\ lines = << >>
  /\ lineIdx = 0
  /\ isStreaming = FALSE
  /\ abortController = 0
  /\ lastEscapeTime = 0
  /\ now = 2 * DoubleEscapeWindow
  /\ fileSearchActive = FALSE
  /\ commandSearchActive = FALSE
  /\ input = ""
  /\ searchTimeout = FALSE
  /\ userInput = ""
  /\ appMessages = << >>
  /\ submitPc = "idle"
  /\ earlier = NoEarlier
  /\ submits = 0
  /\ leakedIntervals = {}
  /\ cleanups = << >>
  /\ tempFile = NoTempFile
  /\ NoLogger

\* the program starts.  main.js (14-18) and simple-tui.js (44-47) check the
\* variable themselves and exit with code 1; tui-app.js (15) constructs the
\* client unchecked; with the variable set the App is rendered and its
\* first render constructs the client (part_002 215-230, 346-400)
Launch ==
  /\ appState = "boot"
  /\ \E checked \in BOOLEAN :
       LET c == Constructor(apiKey) IN
       IF checked /\ apiKey = "unset"
       THEN /\ appState' = "exited"
            /\ UNCHANGED << client, clientVars, appMessages, searchTimeout >>
       ELSE IF c.threw
       THEN /\ appState' = "crashed"
            /\ client' = "threw"
            /\ UNCHANGED << clientVars, appMessages, searchTimeout >>
       ELSE /\ appState' = "running"
            /\ client' = "ready"
            /\ tempDir' = c.tempDir
            /\ toolResultsCache' = c.cache
            /\ appMessages' = << Welcome >>
            /\ UNCHANGED << files, searchTimeout >>
  /\ UNCHANGED << envVars, streamVars, genVars, submitVars, cleanups, isStreaming,
                  abortController, lastEscapeTime, now, fileSearchActive,
                  commandSearchActive, input >>

\* the user types a text into the empty input box (InputBox onChange), and
\* the search effect sets its timer (346-351); a timer whose firing would
\* change nothing (no search to open, none open) is not followed, nor is
\* typing behind the last submit
Type ==
  /\ Mounted
  /\ input = ""
  /\ submits < MaxSubmits
  /\ \E text \in Inputs :
       /\ input' = text
       /\ searchTimeout' = (SearchOf(text) # "none")
  /\ UNCHANGED << envVars, streamVars, clientVars, genVars, submitVars, client, appState,
                  cleanups, isStreaming, abortController, lastEscapeTime, now,
                  fileSearchActive, commandSearchActive, appMessages >>

\* the debounce timer of the search effect fires (351-393)
Debounce ==
  /\ Mounted
  /\ searchTimeout
  /\ searchTimeout' = FALSE
  /\ fileSearchActive' = (SearchOf(input) = "file")
  /\ commandSearchActive' = (SearchOf(input) = "command")
  /\ UNCHANGED << envVars, streamVars, clientVars, genVars, submitVars, client, appState,
                  cleanups, isStreaming, abortController, lastEscapeTime, now, input,
                  appMessages >>

\* no generator is being consumed: the variables of streamWithTools and of
\* chat at their initial values
NoGenerator ==
  /\ pc' = "start"
  /\ currentMessages' = << >>
  /\ iterationCount' = 0
  /\ content' = << >>
  /\ toolCalls' = << >>
  /\ toolIdx' = 0
  /\ toolResults' = << >>
  /\ aiToolResults' = << >>
  /\ result' = NoResult
  /\ emitIdx' = 0
  /\ output' = << >>
  /\ error' = NoError
  /\ useTools' = FALSE
  /\ modelIdx' = 0
  /\ chatLog' = << >>
  /\ toolChats' = 0
  /\ plainChats' = 0
  /\ tempFile' = NoTempFile

\* the state of a component that is not mounted: the initial one
NoUI ==
  /\ isStreaming' = FALSE
  /\ abortController' = 0
  /\ lastEscapeTime' = 0
  /\ now' = 2 * DoubleEscapeWindow
  /\ fileSearchActive' = FALSE
  /\ commandSearchActive' = FALSE
  /\ input' = ""
  /\ searchTimeout' = FALSE
  /\ appMessages' = << >>

\* Enter: handleSubmit up to its first await (457-521).  The call that is
\* still unwinding, if any, goes on as the earlier one; the model follows
\* one such call, and only a cancelled one.  After the first submit the
\* model follows the submits that overlap the one before them
Submit ==
  /\ Mounted
  /\ input # "" /\ ~isStreaming /\ ~fileSearchActive /\ ~commandSearchActive
  /\ submits < MaxSubmits
  /\ IF submitPc = "idle" THEN submits = 0 ELSE earlier.at = "none" /\ aborted
  /\ input' = ""
  /\ searchTimeout' = FALSE
  /\ fileSearchActive' = FALSE
  /\ commandSearchActive' = FALSE
  /\ isStreaming' = TRUE
  /\ abortController' = submits + 1
  /\ submits' = submits + 1
  /\ userInput' = input
  /\ submitPc' = "preprocess"
  /\ earlier' = IF submitPc = "idle"
                THEN earlier
                ELSE [at |-> submitPc, submit |-> submits, userInput |-> userInput,
                      toolCall |-> IF submitPc = "stream" THEN toolCalls[toolIdx]
                                   ELSE NoResult,
                      tempFile |-> tempFile,
                      responseContent |-> output]
  /\ messages' = AllMessages(appMessages, input, files)
  /\ aborted' = FALSE
  /\ NoGenerator
  /\ UNCHANGED << envVars, streamVars, clientVars, client, appState, cleanups,
                  lastEscapeTime, now, appMessages, leakedIntervals >>

\* the setState calls of a component that is not mounted do nothing
Shown(msgs) == IF appState = "running" THEN msgs ELSE appMessages

\* processFileReferences settles, and handleSubmit goes on to the for await
\* (521-575)
PreprocessDone ==
  /\ submitPc = "preprocess"
  /\ appState \in {"running", "unmounting", "unmounted"}
  /\ appMessages' = Shown(AddMessage(AddMessage(appMessages, "user", << Lit(userInput) >>,
                                                submits),
                                     "assistant", Thinking, submits))
  /\ submitPc' = "stream"
  /\ UNCHANGED << envVars, streamVars, clientVars, genVars, client, appState, cleanups,
                  isStreaming, abortController, lastEscapeTime, now, fileSearchActive,
                  commandSearchActive, input, searchTimeout, userInput, earlier, submits,
                  leakedIntervals >>

\* the generator of the latest submit is being consumed
Streaming == submitPc = "stream" /\ appState \in {"running", "unmounting", "unmounted"}

\* the steps of the generator under the for await of handleSubmit (575-585):
\* the loop body checks the token before it takes a chunk.  The remote
\* model requests tools in at most MaxToolTurns turns; the service is up
\* (the first model answers, with no text or with MaxChars characters) or
\* down (every model answers 503)
AppStart == Streaming /\ Start

AppFetchSettle ==
  /\ Streaming
  /\ FetchSettle
  /\ pc' = "toolLoop" => iterationCount < MaxToolTurns
  /\ \A i \in DOMAIN chatLog' :
       /\ chatLog'[i].resp \in {Pending, AbortError, Http(200, FALSE), Http(503, FALSE)}
       /\ chatLog'[i].resp = Http(200, FALSE) => i = 1
  /\ Len(content') \in {0, MaxChars}

AppToolsBegin == Streaming /\ ~aborted /\ ToolsBegin

\* the tool call is a readFile whose result is longer than the threshold:
\* executeToolCall goes on to write the overflow file (155-157)
ReachesWrite(tc, fs) ==
  /\ tc.function.name = "readFile"
  /\ JSONParse(tc.function.arguments).ok
  /\ IsLarge(ReadFileImpl(JSONParse(tc.function.arguments), fs))

\* what fs.writeFile on a file of the directory can come to: the device
\* is full; or the file is written; or a cleanup has removed, or is
\* removing, the directory, and the write finds no directory
WriteOutcomes(tf) ==
  IF ~tmpWritable
  THEN {"ENOSPC"}
  ELSE IF \E i \in DOMAIN cleanups :
            cleanups[i].dir = tf.dir /\ cleanups[i].state \in {"removing", "done"}
  THEN {"ok", "ENOENT"}
  ELSE {"ok"}

\* executeToolCall behind the write of the overflow file (157-191), and its
\* catch block (192-200): the entry is stored under the path computed
\* before the write, whatever this.tempDir is by now
WriteSettled(tc, tf, cache, outcome) ==
  IF outcome = "ok"
  THEN [ret |-> ToolResult(tc, Summary(JSONParse(tc.function.arguments), tf.content), TRUE),
        cache |-> [i \in DOMAIN cache \cup {tc.id} |->
                     IF i = tc.id
                     THEN [fullPath |-> << tf.dir, tc.id >>, fullContent |-> tf.content]
                     ELSE cache[i]]]
  ELSE [ret |-> ToolError(tc, outcome), cache |-> cache]

\* executeToolCall settles for a call that writes no overflow file
AppToolExecDone ==
  /\ Streaming
  /\ pc = "toolExec" /\ ~ReachesWrite(toolCalls[toolIdx], files)
  /\ ToolExecDone

\* readFileImpl and initTempDir have settled (153-156): the directory is
\* there, the path of the overflow file is computed and its write started
AppToolWriteBegin ==
  /\ Streaming
  /\ pc = "toolExec" /\ ReachesWrite(toolCalls[toolIdx], files)
  /\ tempDir' = InitTempDir(tempDir)
  /\ tempFile' = [dir |-> InitTempDir(tempDir),
                  content |-> ReadFileImpl(JSONParse(toolCalls[toolIdx].function.arguments),
                                           files)]
  /\ pc' = "toolWrite"
  /\ UNCHANGED << envVars, streamVars, uiVars, submitVars, client, appState, cleanups,
                  files, toolResultsCache, messages, aborted, currentMessages,
                  iterationCount, content, toolCalls, toolIdx, toolResults, aiToolResults,
                  result, emitIdx, output, error, useTools, modelIdx, chatLog, toolChats,
                  plainChats >>

\* the write of the overflow file settles (157-191), and the progress line
\* is yielded (373-377)
AppToolWriteDone ==
  /\ Streaming
  /\ pc = "toolWrite"
  /\ \E outcome \in WriteOutcomes(tempFile) :
       LET x == WriteSettled(toolCalls[toolIdx], tempFile, toolResultsCache, outcome) IN
       /\ toolResultsCache' = x.cache
       /\ result' = x.ret
       /\ toolResults' = Append(toolResults, x.ret)
       /\ output' = Append(output, ToolLine(toolCalls[toolIdx].function.name,
                                            x.ret.content))
  /\ pc' = "toolYield"
  /\ tempFile' = NoTempFile
  /\ NoChat
  /\ UNCHANGED << envVars, streamVars, uiVars, submitVars, client, appState, cleanups,
                  files, tempDir, messages, aborted, currentMessages, iterationCount,
                  content, toolCalls, toolIdx, aiToolResults, emitIdx, error >>

AppToolNext == Streaming /\ ~aborted /\ ToolNext

AppEmitNext == Streaming /\ ~aborted /\ EmitNext

\* the for await of the latest submit ends: the generator returned or threw,
\* or the loop body found the token fired and broke (577-580); then the
\* final update or the catch block, and the finally block (587-622); the
\* generator is dropped
SubmitSettle ==
  /\ Streaming
  /\ pc \in {"done", "failed"} \/ (aborted /\ pc \in {"toolLoop", "toolYield", "emit"})
  /\ LET broke == pc \notin {"done", "failed"}
         responseContent == IF broke THEN SubSeq(output, 1, Len(output) - 1) ELSE output
     IN
     IF pc = "failed"
     THEN /\ appMessages' = Shown(ShowError(appMessages, error))
          /\ leakedIntervals' = leakedIntervals \cup {responseContent}
     ELSE /\ appMessages' = Shown(ShowContent(appMessages, responseContent))
          /\ UNCHANGED leakedIntervals
  /\ isStreaming' = FALSE
  /\ abortController' = 0
  /\ submitPc' = "idle"
  /\ userInput' = ""
  /\ messages' = << >>
  /\ aborted' = FALSE
  /\ NoGenerator
  /\ UNCHANGED << envVars, streamVars, clientVars, client, appState, cleanups,
                  lastEscapeTime, now, fileSearchActive, commandSearchActive, input,
                  searchTimeout, earlier, submits >>

\* the earlier handleSubmit call goes on: its tool settles, the generator
\* yields the progress line, the loop body finds the token fired and
\* breaks (373-377, 577-580); or its processFileReferences settles and the
\* generator returns at once (349-352); then its final update and its
\* finally block (587-622)
EarlierSettle ==
  /\ earlier.at # "none"
  /\ Awaiting
  /\ appState \in {"running", "unmounting", "unmounted"}
  /\ IF earlier.at = "stream"
     THEN /\ IF earlier.tempFile = NoTempFile
             THEN LET x == ExecuteToolCall(earlier.toolCall, toolResultsCache, tempDir,
                                           files, tmpWritable)
                  IN /\ toolResultsCache' = x.cache
                     /\ tempDir' = x.tempDir
                     /\ files' = x.files
             ELSE /\ \E outcome \in WriteOutcomes(earlier.tempFile) :
                       toolResultsCache' =
                         WriteSettled(earlier.toolCall, earlier.tempFile,
                                      toolResultsCache, outcome).cache
                  /\ UNCHANGED << tempDir, files >>
          /\ appMessages' = Shown(ShowContent(appMessages, earlier.responseContent))
     ELSE /\ appMessages' =
               Shown(ShowContent(
                 AddMessage(AddMessage(appMessages, "user", << Lit(earlier.userInput) >>,
                                       earlier.submit),
                            "assistant", Thinking, earlier.submit),
                 << >>))
          /\ UNCHANGED clientVars
  /\ isStreaming' = FALSE
  /\ abortController' = 0
  /\ earlier' = NoEarlier
  /\ UNCHANGED << envVars, streamVars, genVars, client, appState, cleanups,
                  lastEscapeTime, now, fileSearchActive, commandSearchActive, input,
                  searchTimeout, userInput, submitPc, submits, leakedIntervals >>

\* responseContent of the update intervals that are running: those of the
\* submits in progress and those never cleared
LiveIntervals ==
  leakedIntervals
    \cup (IF submitPc = "stream" THEN {output} ELSE {})
    \cup (IF earlier.at = "stream" THEN {earlier.responseContent} ELSE {})

\* an update interval fires (561-573)
IntervalTick ==
  /\ Mounted
  /\ \E responseContent \in LiveIntervals :
       /\ responseContent # << >>
       /\ appMessages' = ShowContent(appMessages, responseContent)
  /\ appMessages' # appMessages
  /\ UNCHANGED << envVars, streamVars, clientVars, genVars, submitVars, client, appState,
                  cleanups, isStreaming, abortController, lastEscapeTime, now,
                  fileSearchActive, commandSearchActive, input, searchTimeout >>

\* the condition of the cancel (293)
EscapeCancels(timeDiff) ==
  timeDiff < DoubleEscapeWindow /\ isStreaming /\ abortController # 0

\* the Escape key (276-311), within the millisecond of the key press
\* before it or a whole window after it
Escape ==
  /\ Mounted
  /\ \E d \in {0, DoubleEscapeWindow} :
       /\ now + d <= (2 + MaxLongGaps) * DoubleEscapeWindow
       /\ now' = now + d
  /\ fileSearchActive' = FALSE
  /\ commandSearchActive' = FALSE
  /\ IF ~fileSearchActive /\ ~commandSearchActive
     THEN /\ lastEscapeTime' = now'
          /\ IF EscapeCancels(now' - lastEscapeTime)
             THEN /\ aborted' = TRUE
                  /\ abortController' = 0
                  /\ isStreaming' = FALSE
                  /\ appMessages' = MarkCancelled(appMessages)
             ELSE UNCHANGED << aborted, abortController, isStreaming, appMessages >>
     ELSE UNCHANGED << lastEscapeTime, aborted, abortController, isStreaming, appMessages >>
  /\ UNCHANGED << envVars, streamVars, clientVars, submitVars, client, appState,
                  cleanups, input, searchTimeout, messages, pc, currentMessages,
                  iterationCount, content, toolCalls, toolIdx, toolResults, aiToolResults,
                  result, emitIdx, output, error, useTools, modelIdx, chatLog, toolChats,
                  plainChats, tempFile >>

\* CleanupSettled without the catch block
CleanupSettledNoCatch(dir, cache, fails) ==
  IF fails
  THEN [threw |-> TRUE, tempDir |-> dir, cache |-> cache]
  ELSE [threw |-> FALSE, tempDir |-> "null", cache |-> << >>]

\* CleanupSettled leaving the cache as it is
CleanupSettledKeepsCache(dir, cache, fails) ==
  IF fails
  THEN [threw |-> FALSE, tempDir |-> dir, cache |-> cache]
  ELSE [threw |-> FALSE, tempDir |-> "null", cache |-> cache]

\* cleanup behind its await (api.js 35-42): the directory is released and
\* the cache cleared, or the catch block logs the failure
CleanupSettled(dir, cache, fails) ==
  IF fails
  THEN [threw |-> FALSE, tempDir |-> dir, cache |-> cache]
  ELSE [threw |-> FALSE, tempDir |-> "null", cache |-> << >>]

\* cleanup up to its await (api.js 32-35): with a temp dir set its removal
\* starts, with none the call is over
CleanupCall(log) ==
  Append(log, [dir |-> tempDir, state |-> IF tempDir # "null" THEN "removing" ELSE "skipped"])

\* Ctrl+C (267-274): cleanup is called by the key handler and Ink is told
\* to unmount the App; with Ink taking the key itself the key handler does
\* not run.  The state of the component is gone, the submits in progress
\* go on
CtrlC ==
  /\ Mounted
  /\ \E handled \in BOOLEAN :
       cleanups' = IF handled THEN CleanupCall(cleanups) ELSE cleanups
  /\ appState' = "unmounting"
  /\ NoUI
  /\ UNCHANGED << envVars, streamVars, clientVars, genVars, submitVars, client >>

\* the unmount effect of the App calls cleanup (257-263), in the tick of
\* the key press or in a later one
UnmountEffect ==
  /\ appState = "unmounting"
  /\ Awaiting
  /\ cleanups' = CleanupCall(cleanups)
  /\ appState' = "unmounted"
  /\ UNCHANGED << envVars, streamVars, clientVars, genVars, uiVars, submitVars, client >>

\* SIGINT or SIGTERM (main.js 30-40, part_002 242-254): cleanup is called by
\* the handlers of the mounted App (the exit handler, the unmount effect),
\* and main.js ends the process in the same tick: what was in memory is
\* gone, what is on disk stays
Signal ==
  /\ appState \in {"running", "unmounting", "unmounted"}
  /\ Awaiting
  /\ cleanups' \in (IF appState = "running"
                    THEN {CleanupCall(cleanups), CleanupCall(CleanupCall(cleanups))}
                    ELSE {cleanups})
  /\ appState' = "exited"
  /\ NoUI
  /\ NoGenerator
  /\ messages' = << >>
  /\ aborted' = FALSE
  /\ userInput' = ""
  /\ submitPc' = "idle"
  /\ earlier' = NoEarlier
  /\ leakedIntervals' = {}
  /\ UNCHANGED << envVars, streamVars, clientVars, client, submits >>

\* fs.rm of a cleanup call settles (api.js 35-42); a rejection leaving
\* cleanup would reach the unhandledRejection handler of the process
CleanupSettle ==
  /\ appState \in {"running", "unmounting", "unmounted"}
  /\ Awaiting
  /\ \E i \in DOMAIN cleanups :
       /\ cleanups[i].state = "removing"
       /\ cleanups' = [cleanups EXCEPT ![i].state = IF rmFails THEN "failed" ELSE "done"]
  /\ LET r == CleanupSettled(tempDir, toolResultsCache, rmFails) IN
     /\ tempDir' = r.tempDir
     /\ toolResultsCache' = r.cache
     /\ appState' = IF r.threw THEN "crashed" ELSE appState
  /\ UNCHANGED << envVars, streamVars, genVars, uiVars, submitVars, client, files >>

AppNext ==
  \/ Launch
  \/ Type
  \/ Debounce
  \/ Submit
  \/ PreprocessDone
  \/ AppStart
  \/ AppFetchSettle
  \/ AppToolsBegin
  \/ AppToolExecDone
  \/ AppToolWriteBegin
  \/ AppToolWriteDone
  \/ AppToolNext
  \/ AppEmitNext
  \/ SubmitSettle
  \/ EarlierSettle
  \/ IntervalTick
  \/ Escape
  \/ CtrlC
  \/ UnmountEffect
  \/ Signal
  \/ CleanupSettle

AppSpec == AppInit /\ [][AppNext]_vars

(***************************************************************************)
(* Properties of the App and of the process.                                *)
(***************************************************************************)
\* C27: without the credential the constructor throws and leaves no client:
\* no temp dir, no cache, no request to the service ever; nothing
\* constructs a client again after the throw.
C27_NoClientWithoutKey ==
  /\ [](apiKey = "unset" =>
          /\ client \in {"none", "threw"}
          /\ tempDir = "null" /\ toolResultsCache = << >>
          /\ chatLog = << >> /\ toolChats = 0 /\ plainChats = 0
          /\ pc = "start" /\ submits = 0)
  /\ [][client = "none" /\ client' # "none" =>
          client' = (IF apiKey = "unset" THEN "threw" ELSE "ready")]_vars
  /\ [][client = "threw" => client' = "threw" /\ appState' = "crashed"]_vars

C27_Witness == apiKey = "unset" /\ client = "threw" /\ appState = "crashed"

\* the cleanup calls whose removal settles in this step
Settling == {i \in DOMAIN cleanups : cleanups[i].state = "removing" /\ cleanups'[i] # cleanups[i]}

\* C22: cleanup never throws and is idempotent.  No exception leaves a
\* cleanup call in any client state; a call changes nothing before its
\* removal settles, and a call that finds no temp dir (never created, or
\* released by a cleanup before it) starts no removal and changes nothing at
\* all; a removal that succeeds leaves the temp dir released and the cache
\* empty, one that fails leaves both as they are.
C22_CleanupIdempotent ==
  /\ [](appState = "crashed" => client = "threw")
  /\ [][Len(cleanups') > Len(cleanups) =>
          /\ UNCHANGED clientVars
          /\ \A i \in DOMAIN cleanups : cleanups'[i] = cleanups[i]
          /\ \A i \in DOMAIN cleanups' \ DOMAIN cleanups :
               /\ cleanups'[i].dir = tempDir
               /\ cleanups'[i].state = (IF tempDir = "null" THEN "skipped" ELSE "removing")]_vars
  /\ [][\A i \in DOMAIN cleanups :
          cleanups[i].state # "removing" => i \in DOMAIN cleanups' /\ cleanups'[i] = cleanups[i]]_vars
  /\ [][Settling # {} =>
          /\ UNCHANGED files
          /\ IF rmFails
             THEN /\ UNCHANGED << tempDir, toolResultsCache >>
                  /\ \A i \in Settling : cleanups'[i].state = "failed"
             ELSE /\ tempDir' = "null" /\ toolResultsCache' = << >>
                  /\ \A i \in Settling : cleanups'[i].state = "done"]_vars

\* a cleanup call found the temp dir released by the cleanup before it,
\* which emptied a cache that held an entry
C22_Witness ==
  /\ appState = "unmounted"
  /\ \E k \in DOMAIN toolResults :
       "cached" \in DOMAIN toolResults[k] /\ toolResults[k].cached
  /\ \E i, j \in DOMAIN cleanups :
       /\ i < j
       /\ cleanups[i].dir # "null" /\ cleanups[i].state = "done"
       /\ cleanups[j].state = "skipped"
  /\ tempDir = "null" /\ toolResultsCache = << >>

\* the tool call that executeToolCall is run on in this step, if any: the
\* one of the latest submit, or the one of the earlier submit
ExecutedCall ==
  IF Streaming /\ pc \in {"toolExec", "toolWrite"} /\ pc' = "toolYield"
  THEN {toolCalls[toolIdx]}
  ELSE IF earlier.at = "stream" /\ earlier'.at = "none" /\ appState' # "exited"
  THEN {earlier.toolCall}
  ELSE {}

\* what executeToolCall returns for the call in the state before the step
Returned(tc) == ExecuteToolCall(tc, toolResultsCache, tempDir, files, tmpWritable).ret

\* the characters of file content in a text: a lower bound of its length
RECURSIVE BlobChars(_)
BlobChars(text) ==
  IF text = << >>
  THEN 0
  ELSE (IF Head(text).t = "blob" THEN BlobLen[Head(text).b] ELSE 0) + BlobChars(Tail(text))

\* the tool call is a readFile whose result is longer than the threshold
\* and whose overflow file can be written
CachedRead(tc) ==
  /\ tc.function.name = "readFile"
  /\ JSONParse(tc.function.arguments).ok
  /\ IsLarge(ReadFileImpl(JSONParse(tc.function.arguments), files))
  /\ tmpWritable

\* the overflow file whose write settles in this step, if one does
SettlingWrite ==
  IF Streaming /\ pc = "toolWrite" /\ pc' = "toolYield"
  THEN tempFile
  ELSE IF earlier.at = "stream" THEN earlier.tempFile ELSE NoTempFile

\* C28, as stated: whenever a tool call of any tool returns a result longer
\* than 500 characters, the cache holds an entry for it; entries are
\* removed only by cleanup.
C28_AsStated ==
  /\ [][\A tc \in ExecutedCall :
          ("cached" \in DOMAIN Returned(tc) /\ Returned(tc).cached)
            \/ BlobChars(Returned(tc).content) > CacheThreshold
          => tc.id \in DOMAIN toolResultsCache']_vars
  /\ [][DOMAIN toolResultsCache \subseteq DOMAIN toolResultsCache' \/ Settling # {}]_vars

\* C28: an overflow cache entry is created exactly by a readFile call whose
\* result is longer than 500 characters and whose overflow file is written:
\* the entry is stored under the id of the call, in place of an entry under
\* the same id, and holds the result (the write may fail and leave the
\* cache as it is when a cleanup has taken the directory from under it); no
\* other tool call and no other step changes the cache, whatever the length
\* of the result, except a cleanup whose removal succeeds, which removes
\* every entry.
C28_OverflowCache ==
  /\ [][\A tc \in ExecutedCall :
          IF CachedRead(tc)
          THEN \/ /\ DOMAIN toolResultsCache' = DOMAIN toolResultsCache \cup {tc.id}
                  /\ toolResultsCache'[tc.id].fullContent =
                       ReadFileImpl(JSONParse(tc.function.arguments), files)
                  /\ \A id \in DOMAIN toolResultsCache \ {tc.id} :
                       toolResultsCache'[id] = toolResultsCache[id]
               \/ /\ "ENOENT" \in WriteOutcomes(SettlingWrite)
                  /\ toolResultsCache' = toolResultsCache
          ELSE toolResultsCache' = toolResultsCache]_vars
  /\ [][ExecutedCall = {} /\ Settling = {} => toolResultsCache' = toolResultsCache]_vars
  /\ [][Settling # {} =>
          toolResultsCache' = (IF rmFails THEN toolResultsCache ELSE << >>)]_vars

\* a large readFile result has been cached
C28_Witness ==
  /\ Streaming /\ pc = "toolYield"
  /\ "cached" \in DOMAIN result /\ result.cached
  /\ toolCalls[toolIdx].id \in DOMAIN toolResultsCache
  /\ toolResultsCache[toolCalls[toolIdx].id].fullContent = ReadFileImpl([path |-> "big.txt"], files)


\* ---------------------------------------------------------------------
\* C25: in the Ink App, once a cancelled submit has settled, the
\* in-progress assistant message of that submit carries the marker
\* "[Generation cancelled by user]": neither the final update nor the
\* catch block has replaced it
InProgressMessage(msgs, k) ==
  {i \in DOMAIN msgs : msgs[i].role = "assistant" /\ msgs[i].submit = k}

EndsCancelled(text) == Len(text) > 0 /\ text[Len(text)] = CancelMarker

C25_CancelledStaysMarked ==
  [][(/\ Streaming /\ aborted
      /\ appState = "running" /\ appState' = "running"
      /\ submitPc' = "idle")
     => \E i \in InProgressMessage(appMessages', submits) :
          EndsCancelled(appMessages'[i].content)]_vars


\* ---------------------------------------------------------------------
\* C26: in the Ink App, the error of a submit is rendered as the content
\* of the in-progress assistant message: a message that shows
\* "Error during streaming: ..." goes on showing it while the App runs
ShowsError(m) ==
  /\ Len(m.content) > 0
  /\ "kind" \in DOMAIN m.content[1]
  /\ m.content[1].kind = "streamError"

C26_ErrorStaysShown ==
  [][\A i \in DOMAIN appMessages :
       (ShowsError(appMessages[i]) /\ appState' = "running")
         => (i \in DOMAIN appMessages' /\ ShowsError(appMessages'[i]))]_vars


\* ---------------------------------------------------------------------
\* C30: in the Ink App, the token of the submit in progress is fired
\* exactly by an Escape that comes less than 500 ms after the Escape
\* before it, with no search open, while a generation is in progress: no
\* other step fires it, and such an Escape always fires it
QualifyingEscape ==
  /\ Escape
  /\ ~fileSearchActive /\ ~commandSearchActive
  /\ now' - lastEscapeTime < DoubleEscapeWindow
  /\ submitPc # "idle"

\* an Escape pressed in this state would be a qualifying one
EscapeWouldQualify ==
  /\ Mounted
  /\ ~fileSearchActive /\ ~commandSearchActive
  /\ now - lastEscapeTime < DoubleEscapeWindow
  /\ submitPc # "idle" /\ ~aborted

C30_CancelledExactlyByDoubleEscape ==
  /\ [][(~aborted /\ aborted') => QualifyingEscape]_vars
  /\ [](EscapeWouldQualify => EscapeCancels(now - lastEscapeTime))


\* ---------------------------------------------------------------------
\* C31: the fetch attempts of every request, whichever request of the call
\* it is, are made to the models of the registry in its order, from the
\* first one on
C31_FixedOrder ==
  /\ \A i \in DOMAIN chatLog : chatLog[i].model = modelNames[i]
  /\ pc \in {"fetch", "csFetch"} => (modelIdx = Len(chatLog) /\ modelIdx >= 1)

\* a request behind the first one has gone down to the last model
C31_Witness ==
  /\ pc = "fetch"
  /\ toolChats + plainChats >= 2
  /\ Len(chatLog) = Len(modelNames)


\* ---------------------------------------------------------------------
\* the event stream a sequence of lines carries: a line cut by a chunk
\* boundary counts once, as the whole line
RECURSIVE WholeLines(_)
WholeLines(ls) ==
  IF ls = << >> THEN << >>
  ELSE IF "whole" \in DOMAIN Head(ls) THEN << Head(ls).whole >> \o WholeLines(Tail(ls))
  ELSE IF Head(ls) = CutTail THEN WholeLines(Tail(ls))
  ELSE << Head(ls) >> \o WholeLines(Tail(ls))

\* C32: the fragments chatStream has yielded when it returns are the
\* non-empty deltas of the event lines of the response body before the
\* terminator, in order, however the body was cut into chunks
C32_ChunkingIndependent ==
  (Reading /\ pc = "done" /\ ~aborted) =>
    FragmentsOf(modelNames[modelIdx]) = DeltasOf(WholeLines(Flatten(body)))


\* ---------------------------------------------------------------------
\* the steps of a streamWithTools call itself: the settling of a request
\* or of a tool, and the consumer's next()
Run ==
  \/ Start
  \/ FetchSettle
  \/ ToolsBegin
  \/ ToolExecDone
  \/ ToolNext
  \/ EmitNext
  \/ CeilingResume

\* the calls of streamWithTools in which every request and every tool
\* execution settles and the consumer keeps consuming; the caller may fire
\* the token or not
FairInit == Init /\ op = "tools"

FairNext == Run \/ Abort

FairSpec == FairInit /\ [][FairNext]_vars /\ WF_vars(Run)

\* C33: under that assumption every streamWithTools call comes to an end,
\* after at most maxIterations tool iterations and one forced call
C33_Terminates ==
  /\ [](/\ iterationCount <= maxIterations
        /\ toolChats <= maxIterations
        /\ plainChats <= 1)
  /\ <>Terminated

\* the remote model asked for tools in every turn, and the call came to
\* its end behind the forced call
C33_Witness ==
  /\ op = "tools" /\ Terminated
  /\ iterationCount = maxIterations /\ ToolTurns = maxIterations
  /\ plainChats = 1


\* ---------------------------------------------------------------------
\* the working history is the caller's messages followed by n whole
\* blocks: the assistant message of a tool turn and one result per call
WholeBlocks(n) ==
  /\ Len(currentMessages) = Len(messages) + n * (1 + scriptLen)
  /\ SubSeq(currentMessages, 1, Len(messages)) = messages
  /\ \A k \in 1..n :
       LET base == Len(messages) + (k - 1) * (1 + scriptLen) IN
       /\ currentMessages[base + 1].role = "assistant"
       /\ currentMessages[base + 1].tool_calls = ToolCallsOf(k - 1)
       /\ \A j \in 1..scriptLen :
            /\ currentMessages[base + 1 + j].role = "tool"
            /\ currentMessages[base + 1 + j].tool_call_id = ToolCallsOf(k - 1)[j].id

\* C34: at every point of a streamWithTools call the working history is
\* the caller's messages followed by the whole blocks of the iterations
\* completed; a step leaves it as it is or appends one whole block; once
\* the token has fired inside an iteration no further tool is started and
\* nothing is appended, and the blocks already there stay
C34_WholeBlocksOnly ==
  /\ []((op = "tools" /\ pc # "start") => WholeBlocks(iterationCount))
  /\ [][(op = "tools" /\ pc # "start") =>
          /\ \/ currentMessages' = currentMessages
             \/ /\ iterationCount' = iterationCount + 1
                /\ SubSeq(currentMessages', 1, Len(currentMessages)) = currentMessages
          /\ aborted =>
               /\ currentMessages' = currentMessages
               /\ pc' = "toolExec" => pc = "toolExec"]_vars

\* the token fired while the first of two tools of the second iteration
\* ran: the call is over, the second tool never ran, and the history holds
\* the block of the first iteration only
C34_Witness ==
  /\ op = "tools" /\ pc = "done" /\ aborted
  /\ scriptLen = 2 /\ iterationCount = 1
  /\ Len(toolResults) = 1 /\ toolIdx = 2
  /\ WholeBlocks(1)


\* ---------------------------------------------------------------------
\* C35: in the Ink App at most one submit is in progress: while a
\* handleSubmit call has not settled, and the generator it started has not
\* come to its end, no other handleSubmit call is on its way
C35_OneSubmitAtATime ==
  appState = "running" =>
    ~(earlier.at = "stream" /\ submitPc = "stream" /\ pc \notin {"start", "done", "failed"})

\* C36: in the Ink App, while the stream of a submit is running and has not
\* been cancelled, isStreaming is true and abortController is the
\* controller of that submit; and the settling of an earlier submit leaves
\* the messages of the later submit as they are
C36_OwnController ==
  /\ []((appState = "running" /\ submitPc # "idle" /\ ~aborted) =>
          (isStreaming /\ abortController = submits))
  /\ [][(appState = "running" /\ earlier.at # "none" /\ earlier'.at = "none"
           /\ appState' = "running") =>
          \A i \in DOMAIN appMessages :
            appMessages[i].submit = submits =>
              (i \in DOMAIN appMessages' /\ appMessages'[i] = appMessages[i])]_vars


(***************************************************************************)
(* The debug logger (src/src/debug-logger.js).  An entry is known by its    *)
(* place in the order of logging: the n-th entry logged is n.               *)
(***************************************************************************)
maxLogs == 1000

\* largest number of calls made on the logger in one behaviour
MaxLogOps == 4

\* the numbers of entries logged before the behaviour starts
LogFills == {0, maxLogs - 1, maxLogs}

\* everything but the logger
notLoggerVars ==
  << op, scriptStart, scriptLen, tmpWritable, freshIds, files, tempDir, toolResultsCache,
     messages, aborted, pc, currentMessages, iterationCount, content, toolCalls,
     toolIdx, toolResults, aiToolResults, result, emitIdx, output, error,
     useTools, modelIdx, chatLog, toolChats, plainChats, body, chunks, lines, lineIdx,
     apiKey, client, appState, isStreaming, abortController, lastEscapeTime, now,
     fileSearchActive, commandSearchActive, input, searchTimeout, userInput, appMessages,
     submitPc, earlier, submits, leakedIntervals, cleanups, rmFails, tempFile >>

\* Trim keeping whatever it is given
TrimNever(s) == s

\* this.logs.slice(-this.maxLogs) when the buffer is over its size (25-27)
Trim(s) == IF Len(s) > maxLogs THEN SubSeq(s, Len(s) - maxLogs + 1, Len(s)) ELSE s

\* [...this.logs] (57): a new array with the same entries
GetLogs(s) == [has |-> TRUE, elems |-> s]

\* the logger after fill calls of log and nothing else
LoggerInit ==
  /\ ClientInit /\ op = "plain"
  /\ \E fill \in LogFills :
       /\ logs = [i \in 1..fill |-> i]
       /\ logged = fill
  /\ returned = NoReturned
  /\ logTrace = << >>

\* log(level, message, ...args) (13-37): the entry is pushed and the buffer
\* cut to its size; what follows writes to the console and to Sentry
LogCall ==
  /\ Len(logTrace) < MaxLogOps
  /\ logged' = logged + 1
  /\ logs' = Trim(Append(logs, logged + 1))
  /\ logTrace' = Append(logTrace, "log")
  /\ UNCHANGED << returned, notLoggerVars >>

\* getLogs() (55-58)
GetLogsCall ==
  /\ Len(logTrace) < MaxLogOps
  /\ returned' = GetLogs(logs)
  /\ logTrace' = Append(logTrace, "getLogs")
  /\ UNCHANGED << logs, logged, notLoggerVars >>

\* clearLogs() (60-63)
ClearLogsCall ==
  /\ Len(logTrace) < MaxLogOps
  /\ logs' = << >>
  /\ logTrace' = Append(logTrace, "clearLogs")
  /\ UNCHANGED << logged, returned, notLoggerVars >>

\* the caller changes the array it was given: push of an object of its
\* own (0), pop, or assignment to the first slot
MutateReturned ==
  /\ Len(logTrace) < MaxLogOps
  /\ returned.has
  /\ \E kind \in {"push", "pop", "set"} :
       /\ kind # "push" => returned.elems # << >>
       /\ returned' =
            [returned EXCEPT !.elems =
               CASE kind = "push" -> Append(@, 0)
                 [] kind = "pop" -> SubSeq(@, 1, Len(@) - 1)
                 [] kind = "set" -> [@ EXCEPT ![1] = 0]]
  /\ logTrace' = Append(logTrace, "mutate")
  /\ UNCHANGED << logs, logged, notLoggerVars >>

LoggerNext ==
  \/ LogCall
  \/ GetLogsCall
  \/ ClearLogsCall
  \/ MutateReturned

LoggerSpec == LoggerInit /\ [][LoggerNext]_vars

\* the latest call on the logger, made by this step
Called(name) == logTrace' # logTrace /\ logTrace'[Len(logTrace')] = name

\* C39: the buffer never holds more than maxLogs entries, and holds the
\* entries logged last, in the order of logging; log on a full buffer drops
\* the oldest entry and nothing else; getLogs returns the entries of the
\* buffer, and no change of the returned array changes the buffer
C39_BoundedBuffer ==
  /\ [](/\ Len(logs) <= maxLogs
        /\ \A i \in DOMAIN logs : logs[i] = logged - Len(logs) + i)
  /\ [][/\ Called("log") =>
             logs' = (IF Len(logs) = maxLogs THEN Tail(logs) ELSE logs) \o << logged' >>
        /\ Called("getLogs") => (returned'.elems = logs /\ logs' = logs)
        /\ Called("mutate") => logs' = logs]_vars

\* the buffer was full, an array was taken, a further entry pushed the
\* oldest one out, and the array, which still holds it, was changed
C39_Witness ==
  /\ Len(logs) = maxLogs /\ logs[1] = 2 /\ logs[maxLogs] = maxLogs + 1
  /\ returned.has /\ returned.elems[1] = 1
  /\ Len(returned.elems) = maxLogs + 1
  /\ logTrace[Len(logTrace)] = "mutate"


\* the latest result of the generator carries the cached flag
CachedResult == "cached" \in DOMAIN result /\ result.cached

\* C37: whenever streamWithTools folds a tool result flagged as cached, the
\* overflow cache holds the entry of that tool call: while the generator
\* is suspended at the progress line of a cached result the entry is
\* there, with a cleanup in progress or not, and the element the generator
\* then adds to the results for the model holds the full content of the
\* entry, not the summary
C37_CachedResultFolded ==
  /\ []((Streaming /\ pc = "toolYield" /\ CachedResult)
          => toolCalls[toolIdx].id \in DOMAIN toolResultsCache)
  /\ [][(Streaming /\ pc = "toolYield" /\ CachedResult
           /\ Len(aiToolResults') = Len(aiToolResults) + 1)
          => /\ toolCalls[toolIdx].id \in DOMAIN toolResultsCache
             /\ aiToolResults'[Len(aiToolResults')].content =
                  toolResultsCache[toolCalls[toolIdx].id].fullContent
             /\ aiToolResults'[Len(aiToolResults')].content # result.content]_vars

\* a cached result has been folded with its full content while a cleanup
\* call was waiting for the removal of the temp dir
C37_Witness ==
  /\ Streaming /\ pc # "toolYield" /\ CachedResult
  /\ aiToolResults # << >>
  /\ aiToolResults[Len(aiToolResults)].tool_call_id = result.tool_call_id
  /\ aiToolResults[Len(aiToolResults)].content # result.content
  /\ \E i \in DOMAIN cleanups : cleanups[i].state = "removing" /\ cleanups[i].dir = tempDir

\* C38: a cache that is not empty implies that tempDir is set and that the
\* overflow file of every entry lies in the current tempDir, so that a
\* cleanup removes every entry that exists
C38_CacheInsideTempDir ==
  DOMAIN toolResultsCache # {} =>
    /\ tempDir # "null"
    /\ \A id \in DOMAIN toolResultsCache : toolResultsCache[id].fullPath[1] = tempDir

====
